---- MODULE Spec2Model ----
(***************************************************************************)
(* A model of the anant arbitrary-precision library: the memoization       *)
(* caches (mp-cache), the sequential binomial coefficient (mp-binomial),   *)
(* complex root isolation (mp-zeroiso) and the disk cache (db-cache).      *)
(***************************************************************************)
EXTENDS Integers, Sequences, FiniteSets, TLC

(***************************************************************************)
(* Bounds of the model.                                                    *)
(***************************************************************************)
MaxN == 3
MaxVal == 2
MaxPrec == 2
MaxOps == 4
NThreads == 2
MaxIdx == 2
MaxCalls == 2
MaxBinN == 3
MaxBinOps == 3
SeqMax == 30
FracBits == 7
MaxDegree == 2
MaxIsoCalls == 2
MaxDbIdx == 1
MaxDbPrec == 2
MaxDbOps == 3
MaxZExp == 1
MaxPolyPrec == 16
MaxPolyCalls == 2
MaxRcK == 1
MaxRcPrec == 2
MaxRcCalls == 4
MaxMulN == 9
MaxMulPrec == 2
MaxMulCalls == 3
MaxShift == 4
MaxMpfPowCalls == 2
MaxPrtIdx == 2
MaxPrtCalls == 2
NConstThreads == 2
MaxConstPrec == 2
MaxConstCalls == 2
MaxMergeIdx == 2
MaxMergeArgs == 6
MaxMergeRuns == 1
MaxBruteS == 3
MaxBrutePrec == 10
MaxBruteCalls == 3
MaxZetaS == 3
MaxZetaPrec == 2
MaxZetaCalls == 2
ZetaDigits == 3
MaxQuadIter == 1

VARIABLES
  kind,      \* which cache primitives operate on the cache: "fp1d", "i1d", "itri"
  c,         \* the cache struct: nmax, disabled, mem (NULL is <<>>)
  lastChk,   \* the call site's last check: index and result (hit)
  out,       \* the destination of the last fetch
  acc,       \* what the last operation did to the backing storage
  op,        \* the last operation: "check", "store", "fetch", "clear"
  crashed,   \* the process died on a NULL / out-of-range dereference
  shadow,    \* ghost: the entries stored and not cleared since, by index
  grown,     \* ghost: number of growth reallocations so far
  nops       \* ghost: number of operations so far

VARIABLES
  cptr,      \* c->cache / c->precision of the shared cache: a heap id, 0 is NULL
  cnmax,     \* c->nmax of the shared cache
  lock,      \* c->lock: the thread that holds the spinlock, 0 when free
  heap,      \* the malloc'ed backing arrays, by id: live flag and slots
  pc,        \* where each thread is
  tn,        \* the index each thread is working on
  tp,        \* the array pointer each thread has loaded for its fetch/store
  told,      \* the old array each thread has still to free
  calls,     \* ghost: number of check calls each thread has made
  done,      \* ghost: the indices whose store has completed
  fetched,   \* ghost: a fetch completed on a live array
  uaf        \* ghost: a fetch or store dereferenced a freed array

concVars == <<cptr, cnmax, lock, heap, pc, tn, tp, told, calls, done, fetched, uaf>>

VARIABLES
  bst,       \* i_binomial_sequence's statics: curr_n, last_k, the two caches
  bin,       \* the value the last i_binomial_sequence call returned
  bcall,     \* the (n, k) of the last call
  bslow,     \* ghost: the last call reached the general binomial coefficient
  bahead,    \* ghost: the last call lay ahead of the position served before
  bops       \* ghost: number of calls so far

binVars == <<bst, bin, bcall, bslow, bahead, bops>>

VARIABLES
  poly,      \* the polynomial callback of the current cpx_isolate_roots call
  degree,    \* the degree argument of the current call
  boxll,     \* the caller's lower-left corner (swapped in place by the call)
  boxur,     \* the caller's upper-right corner
  head,      \* the work-list of boxes, first box first
  centers,   \* the caller's array of disk centers, and the memory behind it
  radii,     \* the caller's array of disk radii, and the memory behind it
  nfound,    \* the running count of disks
  ipc,       \* "idle", "loop", "returned", or "fpe" (killed by SIGFPE)
  ret,       \* the value the last call returned
  written,   \* ghost: the array indices the current call has written
  icalls,    \* ghost: number of cpx_isolate_roots calls so far
  isteps     \* ghost: number of steps the current call has taken

isoVars == <<poly, degree, boxll, boxur, head, centers, radii, nfound, ipc, ret,
             written, icalls, isteps>>

VARIABLES
  dbfile,    \* the database files: by name, "none" or the records by key
  dval,      \* the mpf_t the last fp_cache_get was given to fill
  dret,      \* the value the last fp_cache_get returned
  dcall,     \* the last call: op, dbname, idx, nprec, val
  derr,      \* what the last call printed on standard error
  dfail,     \* ghost: the errno of the last call's failed dbopen, or "ok"
  dlast,     \* ghost: by name and index, the last put that reached the file
  dops       \* ghost: number of calls so far

dbVars == <<dbfile, dval, dret, dcall, derr, dfail, dlast, dops>>

VARIABLES
  pbits,     \* mpf_get_default_prec(): the working precision in bits
  ppow,      \* the statics of cpx_ui_pow_cache: cache_s, precision, powcache
  pcall,     \* the last call: function, z, prec
  prc,       \* the status the last call returned
  pval,      \* the caller's plog
  pfail,     \* ghost: whether the navigation of the last call failed, at which
             \* depth, and what plog held before the call
  pprev,     \* ghost: the call before the last, its status and its result
  pcalls,    \* ghost: number of calls so far
  pfpe       \* the process died of a floating point exception

plVars == <<pbits, ppow, pcall, prc, pval, pfail, pprev, pcalls, pfpe>>

VARIABLES
  rcst,      \* the statics of fp_pow_rc and of cpx_pow_rc: precision, the two
             \* (cache_q, cache_s, powcache) slots, next_cache
  rclog,     \* the last call and what it did
  rcseen,    \* ghost: the contexts each wrapper has been called with
  rcdone,    \* ghost: the (context, k, prec) requests each wrapper has answered
             \* since its caches were last cleared for a higher precision
  rccalls    \* ghost: number of calls so far

rcVars == <<rcst, rclog, rcseen, rcdone, rccalls>>

VARIABLES
  primca,    \* the static cache of cpx_multiplicative_cached
  mres,      \* the caller's result
  mcall,     \* the last call: n, nprec
  fcount,    \* ghost: how often func was invoked at each argument since the
             \* cache was last cleared
  fasked,    \* ghost: how often the wrapper was asked for each argument since
             \* the cache was last cleared
  mcalls     \* ghost: number of calls so far

muVars == <<primca, mres, mcall, fcount, fasked, mcalls>>

VARIABLES
  zfunc,     \* the function whose zero cpx_find_zero looks for
  zeps,      \* 1/epsi, epsi the tolerance 2^-(int)(3.322*ndigits)
  zpts,      \* (s0, y0), (s1, y1), (s2, y2): the three retained points
  zi,        \* the loop counter i
  zpc,       \* "idle", "loop", "done", or "fpe" after a division by zero
  zrc,       \* the status rc
  zresult,   \* the caller's result (denominator 0: never written)
  zprop      \* ghost: the last proposed point, how its modulus compared
             \* with the worst retained one, and whether it was accepted

zfVars == <<zfunc, zeps, zpts, zi, zpc, zrc, zresult, zprop>>

VARIABLES
  wpc,       \* where cpx_mpf_pow is: "idle", "fp_log", "done"
  wkq,       \* the base kq of the call, a fraction n/d
  wess,      \* the exponent of the call
  wzee,      \* fp_log's zee
  wnexp,     \* fp_log's nexp
  werr,      \* what the call has printed to standard error
  wpowc,     \* the caller's powc
  wwritten,  \* ghost: the call has written powc
  wcalls     \* ghost: number of calls so far

mpVars == <<wpc, wkq, wess, wzee, wnexp, werr, wpowc, wwritten, wcalls>>

VARIABLES
  prfile,    \* the cache file db-prt reads: per index the stored "prec[idx]"
  prcall,    \* the last run of db-prt: from, to
  prout,     \* the "range ..." lines the last run printed
  prcalls    \* ghost: number of runs so far

prVars == <<prfile, prcall, prout, prcalls>>

VARIABLES
  mp_lock,   \* mp_const_lock, mp_pi_lock, mp_euler_lock, mp_zeta_lock: the
             \* thread that holds each spinlock, 0 when it is free
  cprec,     \* the static `precision' of every constant function
  kstack,    \* per thread: the constant functions it is inside, innermost last
  kcalls     \* ghost: number of top-level calls so far

kcVars == <<mp_lock, cprec, kstack, kcalls>>

VARIABLES
  gargv,     \* db-merge: argv[1..argc-1] of the run (argv[0] is the program)
  gfile,     \* the cache files by name: per index the stored precision and
             \* which input the stored value came from
  gpc,       \* "shell", "loop", "exit" or "segv"
  gfrom,     \* from
  gtoo,      \* too
  gn,        \* the loop counter n
  gexit,     \* exit status, -1 while the program runs
  gusage,    \* the usage message was printed
  gread,     \* ghost: the indices of argv the run has read
  gruns      \* ghost: number of runs so far

mgVars == <<gargv, gfile, gpc, gfrom, gtoo, gn, gexit, gusage, gread, gruns>>

VARIABLES
  cache_size,  \* fp_zeta_brute: the static cache_size
  zeta_cache,  \* the static zeta_cache[s]: the running sum kept for each s
  zprec,       \* the static zprec[s]
  last_term,   \* the static last_term[s]
  zbzeta,      \* the caller's zeta after the last call
  zbcall,      \* the last call: s, prec
  zbhow,       \* how the last call returned: "none", "low", "hit", "refused"
               \* or "summed"
  zbcalls      \* ghost: number of calls so far

zbVars == <<cache_size, zeta_cache, zprec, last_term, zbzeta, zbcall, zbhow, zbcalls>>

VARIABLES
  zmem,      \* fp_zeta: the static memory cache (nmax, mem)
  zdisk,     \* the file db-zeta.db: per s the stored string and precision
  zdpc,      \* "idle", "mem", "disk", "eval" or "done"
  zdcall,    \* the call in progress or just returned: s, prec
  zdzeta,    \* the caller's zeta
  zlog,      \* ghost: what the call has done so far, in order
  zentry,    \* ghost: what the two caches held for s when the call began
  zdcalls    \* ghost: number of calls so far

zdVars == <<zmem, zdisk, zdpc, zdcall, zdzeta, zlog, zentry, zdcalls>>

VARIABLES
  qfn,       \* cpx_find_zero_quad: the function whose zero is looked for
  qeps,      \* 1/epsi, epsi the tolerance 2^-(int)(3.322*ndigits)
  qs0,       \* s0, the current point
  qsa,       \* sa, where the search along direction a ended
  qsb,       \* sb, where the search along direction b ended
  qna,       \* na, the first direction
  qnb,       \* nb, the second direction
  qf0,       \* f0, the squared modulus at the best point so far
  qi,        \* the loop counter i
  qdone1,    \* done1 of the iteration in progress
  qpc,       \* "idle", "a", "b", "out" (the loop was left) or "done"
  qrc,       \* the status rc
  qresult,   \* the caller's result (denominator 0: never written)
  qlast      \* ghost: how the last line search ended

qdVars == <<qfn, qeps, qs0, qsa, qsb, qna, qnb, qf0, qi, qdone1, qpc, qrc, qresult, qlast>>

notConc == <<kind, c, lastChk, out, acc, op, crashed, shadow, grown, nops, binVars,
             isoVars, dbVars, plVars,
  rcVars,
  muVars,
  zfVars,
  mpVars,
  prVars,
  kcVars,
  mgVars,
  zbVars,
  zdVars,
  qdVars>>
notCache == <<concVars, binVars, isoVars, dbVars, plVars,
  rcVars,
  muVars,
  zfVars,
  mpVars,
  prVars,
  kcVars,
  mgVars,
  zbVars,
  zdVars,
  qdVars>>
notBin == <<kind, c, lastChk, out, acc, op, crashed, shadow, grown, nops, concVars,
            isoVars, dbVars, plVars,
  rcVars,
  muVars,
  zfVars,
  mpVars,
  prVars,
  kcVars,
  mgVars,
  zbVars,
  zdVars,
  qdVars>>
notIso == <<kind, c, lastChk, out, acc, op, crashed, shadow, grown, nops, concVars,
            binVars, dbVars, plVars,
  rcVars,
  muVars,
  zfVars,
  mpVars,
  prVars,
  kcVars,
  mgVars,
  zbVars,
  zdVars,
  qdVars>>
notDb == <<kind, c, lastChk, out, acc, op, crashed, shadow, grown, nops, concVars,
           binVars, isoVars, plVars,
  rcVars,
  muVars,
  zfVars,
  mpVars,
  prVars,
  kcVars,
  mgVars,
  zbVars,
  zdVars,
  qdVars>>
notPl == <<kind, c, lastChk, out, acc, op, crashed, shadow, grown, nops, concVars,
           binVars, isoVars, dbVars,
  rcVars,
  muVars,
  zfVars,
  mpVars,
  prVars,
  kcVars,
  mgVars,
  zbVars,
  zdVars,
  qdVars>>

cacheVars == <<kind, c, lastChk, out, acc, op, crashed, shadow, grown, nops>>

notQd == <<cacheVars, concVars, binVars, isoVars, dbVars, plVars, rcVars, muVars, zfVars, mpVars, prVars, kcVars, mgVars, zbVars, zdVars>>

notZd == <<cacheVars, concVars, binVars, isoVars, dbVars, plVars, rcVars, muVars, zfVars, mpVars, prVars, kcVars, mgVars, zbVars,
  qdVars>>

notZb == <<cacheVars, concVars, binVars, isoVars, dbVars, plVars, rcVars, muVars, zfVars, mpVars, prVars, kcVars, mgVars,
  zdVars,
  qdVars>>

notMg == <<cacheVars, concVars, binVars, isoVars, dbVars, plVars, rcVars, muVars, zfVars, mpVars, prVars, kcVars,
  zbVars,
  zdVars,
  qdVars>>

notKc == <<cacheVars, concVars, binVars, isoVars, dbVars, plVars, rcVars, muVars, zfVars, mpVars, prVars,
  mgVars,
  zbVars,
  zdVars,
  qdVars>>

notPr == <<cacheVars, concVars, binVars, isoVars, dbVars, plVars, rcVars, muVars, zfVars, mpVars,
  kcVars,
  mgVars,
  zbVars,
  zdVars,
  qdVars>>

notMp == <<cacheVars, concVars, binVars, isoVars, dbVars, plVars, rcVars, muVars, zfVars,
  prVars,
  kcVars,
  mgVars,
  zbVars,
  zdVars,
  qdVars>>

notZf == <<cacheVars, concVars, binVars, isoVars, dbVars, plVars, rcVars, muVars,
  mpVars,
  prVars,
  kcVars,
  mgVars,
  zbVars,
  zdVars,
  qdVars>>

notMu == <<cacheVars, concVars, binVars, isoVars, dbVars, plVars, rcVars,
  zfVars,
  mpVars,
  prVars,
  kcVars,
  mgVars,
  zbVars,
  zdVars,
  qdVars>>

notRc == <<cacheVars, concVars, binVars, isoVars, dbVars, plVars,
  muVars,
  zfVars,
  mpVars,
  prVars,
  kcVars,
  mgVars,
  zbVars,
  zdVars,
  qdVars>>

Kinds == {"fp1d", "i1d", "itri"}
Values == 1..MaxVal
Precs == 1..MaxPrec
NoChk == [idx |-> -1, hit |-> 0]
ZeroSlot == [v |-> 0, m |-> 0]

\* What an uninitialised slot of a malloc'ed array may hold.
GarbageSlots(k) == [v : {0, MaxVal}, m : IF k = "fp1d" THEN {0, MaxPrec} ELSE {0, 1}]

\* The marker a store writes: the precision (fp) or 1 (ticky).
Marks(k) == IF k = "fp1d" THEN Precs ELSE {1}

\* Offset of row n in the triangular layout.
TriIdx(n, k) == (n * (n+1)) \div 2 + k

NewSizeLinear(n) == (3 * n) \div 2 + 2

\* Slot idx of the backing array (C index, 0-based).
SlotAt(cc, idx) == cc.mem[idx + 1]

\* Growth of a linear cache: copy 0..nmax, initialise the rest.
GrowLinear(cc, n) ==
  LET newsize == NewSizeLinear(n)
      nstart == IF cc.nmax = 0 THEN 0 ELSE cc.nmax + 1
  IN [cc EXCEPT !.mem = [i \in 1..newsize |->
                            IF i - 1 < nstart THEN cc.mem[i] ELSE ZeroSlot],
                !.nmax = newsize - 1]

\* Row requested from a triangular growth: row 0 is promoted to row 1.
TriRow(n) == IF n = 0 THEN 1 ELSE n

\* Indices of the new triangular array that are neither copied nor initialised.
TriGarbage(cc, n) ==
  IF cc.nmax = 0 THEN {}
  ELSE {i \in 0..(TriIdx(TriRow(n) + 1, 0) - 1) :
           i > cc.nmax /\ i < TriIdx(cc.nmax + 1, 0)}

\* Growth of a triangular cache: memcpy of nmax+1 elements, rows
\* nmax+1..n initialised, everything in between is whatever malloc returned.
GrowTriangle(cc, n, g) ==
  LET nn == TriRow(n)
      newsize == TriIdx(nn + 1, 0)
      nstart == IF cc.nmax = 0 THEN 0 ELSE cc.nmax + 1
  IN [cc EXCEPT !.mem = [i \in 1..newsize |->
                            IF cc.nmax # 0 /\ i - 1 <= cc.nmax THEN cc.mem[i]
                            ELSE IF i - 1 >= TriIdx(nstart, 0) THEN ZeroSlot
                            ELSE g[i - 1]],
                !.nmax = nn]

\* What a check that finds storage for idx returns: the slot's marker.
CheckHit(cc, idx) == SlotAt(cc, idx).m

InitCache ==
  /\ kind \in Kinds
  /\ c \in {[nmax |-> 0, disabled |-> d, mem |-> <<>>] :
              d \in IF kind = "fp1d" THEN {FALSE} ELSE BOOLEAN}
  /\ lastChk = NoChk
  /\ out = 0
  /\ acc = "none"
  /\ op = "none"
  /\ crashed = FALSE
  /\ shadow = <<>>
  /\ grown = 0
  /\ nops = 0

Live == ~crashed /\ nops < MaxOps

\* fp_one_d_cache_check and i_one_d_cache_check.
CheckLinear(n) ==
  /\ Live
  /\ op' = "check" /\ kind \in {"fp1d", "i1d"}
  /\ nops' = nops + 1
  /\ IF kind = "i1d" /\ c.disabled
     THEN /\ lastChk' = [idx |-> n, hit |-> 0]
          /\ acc' = "none"
          /\ UNCHANGED <<c, grown>>
     ELSE IF n <= c.nmax /\ c.nmax # 0
     THEN /\ lastChk' = [idx |-> n, hit |-> CheckHit(c, n)]
          /\ acc' = "read"
          /\ UNCHANGED <<c, grown>>
     ELSE /\ c' = GrowLinear(c, n)
          /\ grown' = grown + 1
          /\ lastChk' = [idx |-> n, hit |-> 0]
          /\ acc' = "write"
  /\ UNCHANGED <<kind, out, crashed, shadow>>
  /\ UNCHANGED notCache

\* i_triangle_cache_check.
CheckTriangle(n, k) ==
  /\ Live
  /\ op' = "check" /\ kind = "itri"
  /\ nops' = nops + 1
  /\ IF c.disabled
     THEN /\ lastChk' = [idx |-> TriIdx(n, k), hit |-> 0]
          /\ acc' = "none"
          /\ UNCHANGED <<c, grown>>
     ELSE IF n <= c.nmax /\ c.nmax # 0
     THEN /\ lastChk' = [idx |-> TriIdx(n, k), hit |-> CheckHit(c, TriIdx(n, k))]
          /\ acc' = "read"
          /\ UNCHANGED <<c, grown>>
     ELSE /\ \E g \in [TriGarbage(c, n) -> GarbageSlots(kind)] :
                c' = GrowTriangle(c, n, g)
          /\ grown' = grown + 1
          /\ lastChk' = [idx |-> TriIdx(n, k), hit |-> 0]
          /\ acc' = "write"
  /\ UNCHANGED <<kind, out, crashed, shadow>>
  /\ UNCHANGED notCache

\* A dereference of c->cache[idx] is valid when the array exists and holds idx.
InRange(cc, idx) == idx + 1 <= Len(cc.mem)

\* fp_one_d_cache_store, i_one_d_cache_store, i_triangle_cache_store:
\* called after a check of the same index that missed.
Store(v, m) ==
  /\ Live
  /\ op' = "store"
  /\ lastChk.idx >= 0 /\ lastChk.hit = 0
  /\ nops' = nops + 1
  /\ IF kind = "i1d" /\ c.disabled
     THEN /\ acc' = "none"
          /\ UNCHANGED <<c, crashed, shadow>>
     ELSE /\ acc' = "write"
          /\ IF InRange(c, lastChk.idx)
             THEN /\ c' = [c EXCEPT !.mem[lastChk.idx + 1] = [v |-> v, m |-> m]]
                  /\ shadow' = [i \in (DOMAIN shadow) \cup {lastChk.idx} |->
                                  IF i = lastChk.idx THEN [v |-> v, m |-> m]
                                  ELSE shadow[i]]
                  /\ UNCHANGED crashed
             ELSE /\ crashed' = TRUE
                  /\ UNCHANGED <<c, shadow>>
  /\ lastChk' = NoChk
  /\ UNCHANGED <<kind, out, grown>>
  /\ UNCHANGED notCache

\* fp_one_d_cache_fetch, i_one_d_cache_fetch, i_triangle_cache_fetch:
\* called after a check of the same index that hit.
Fetch ==
  /\ Live
  /\ op' = "fetch"
  /\ lastChk.idx >= 0 /\ lastChk.hit # 0
  /\ nops' = nops + 1
  /\ IF kind = "i1d" /\ c.disabled
     THEN /\ acc' = "none"
          /\ UNCHANGED <<out, crashed>>
     ELSE /\ acc' = "read"
          /\ IF InRange(c, lastChk.idx)
             THEN /\ out' = SlotAt(c, lastChk.idx).v
                  /\ UNCHANGED crashed
             ELSE /\ crashed' = TRUE
                  /\ UNCHANGED out
  /\ lastChk' = NoChk
  /\ UNCHANGED <<kind, c, shadow, grown>>
  /\ UNCHANGED notCache

\* fp_one_d_cache_clear, i_one_d_cache_clear, cpx_one_d_cache_clear.
ClearMem(cc) ==
  [cc EXCEPT !.mem = [i \in 1..Len(cc.mem) |->
                        IF i - 1 < cc.nmax THEN [cc.mem[i] EXCEPT !.m = 0]
                        ELSE cc.mem[i]]]

Clear ==
  /\ Live
  /\ op' = "clear" /\ kind \in {"fp1d", "i1d"}
  /\ nops' = nops + 1
  /\ c' = ClearMem(c)
  /\ shadow' = <<>>
  /\ lastChk' = NoChk
  /\ acc' = IF c.nmax > 0 THEN "write" ELSE "none"
  /\ UNCHANGED <<kind, out, crashed, grown>>
  /\ UNCHANGED notCache

NextCache ==
  \/ \E n \in 0..MaxN : CheckLinear(n)
  \/ \E n \in 0..MaxN : \E k \in 0..n : CheckTriangle(n, k)
  \/ \E v \in Values : \E m \in Marks(kind) : Store(v, m)
  \/ Fetch
  \/ Clear


(***************************************************************************)
(* The spinlock-protected linear cache under concurrent callers.  Each     *)
(* thread runs the call-site pattern: check, then fetch on a hit or        *)
(* compute-and-store on a miss.  The cache memoizes a function of the      *)
(* index, so the value stored under index n is CachedValue(n).             *)
(***************************************************************************)
Threads == 1..NThreads
CachedValue(n) == n + 1
ThePrec == 1

IdleConc ==
  /\ cptr = 0
  /\ cnmax = 0
  /\ lock = 0
  /\ heap = <<>>
  /\ pc = [t \in Threads |-> "idle"]
  /\ tn = [t \in Threads |-> 0]
  /\ tp = [t \in Threads |-> 0]
  /\ told = [t \in Threads |-> 0]
  /\ calls = [t \in Threads |-> 0]
  /\ done = {}
  /\ fetched = FALSE
  /\ uaf = FALSE

\* The array a growth builds: the old contents, then initialised slots.
GrownArray(n) ==
  LET newsize == NewSizeLinear(n)
      nstart == IF cnmax = 0 THEN 0 ELSE cnmax + 1
  IN [i \in 1..newsize |->
        IF i - 1 < nstart THEN heap[cptr].mem[i] ELSE ZeroSlot]

\* pthread_spin_lock at the head of fp_one_d_cache_check.
ChkLock(t, n) ==
  /\ pc[t] = "idle" /\ calls[t] < MaxCalls
  /\ lock = 0
  /\ lock' = t
  /\ pc' = [pc EXCEPT ![t] = "crit"]
  /\ tn' = [tn EXCEPT ![t] = n]
  /\ calls' = [calls EXCEPT ![t] = @ + 1]
  /\ UNCHANGED <<cptr, cnmax, heap, tp, told, done, fetched, uaf>>
  /\ UNCHANGED notConc

\* The locked region of fp_one_d_cache_check, hit path: read the marker.
ChkRead(t) ==
  /\ pc[t] = "crit" /\ lock = t
  /\ tn[t] <= cnmax /\ cnmax # 0
  /\ lock' = 0
  /\ pc' = [pc EXCEPT ![t] = IF heap[cptr].mem[tn[t] + 1].m >= ThePrec
                             THEN "fload" ELSE "stload"]
  /\ UNCHANGED <<cptr, cnmax, heap, tn, tp, told, calls, done, fetched, uaf>>
  /\ UNCHANGED notConc

\* The locked region, growth path: build the new arrays, swap, unlock.
ChkGrow(t) ==
  /\ pc[t] = "crit" /\ lock = t
  /\ ~(tn[t] <= cnmax /\ cnmax # 0)
  /\ heap' = Append(heap, [live |-> TRUE, mem |-> GrownArray(tn[t])])
  /\ told' = [told EXCEPT ![t] = cptr]
  /\ cptr' = Len(heap) + 1
  /\ cnmax' = NewSizeLinear(tn[t]) - 1
  /\ lock' = 0
  /\ pc' = [pc EXCEPT ![t] = "free"]
  /\ UNCHANGED <<tn, tp, calls, done, fetched, uaf>>
  /\ UNCHANGED notConc

\* free(old_cache); free(old_prec); return 0 -- after the unlock.
ChkFree(t) ==
  /\ pc[t] = "free"
  /\ heap' = IF told[t] # 0 THEN [heap EXCEPT ![told[t]].live = FALSE] ELSE heap
  /\ told' = [told EXCEPT ![t] = 0]
  /\ pc' = [pc EXCEPT ![t] = "stload"]
  /\ UNCHANGED <<cptr, cnmax, lock, tn, tp, calls, done, fetched, uaf>>
  /\ UNCHANGED notConc

\* fp_one_d_cache_store / fp_one_d_cache_fetch read c->cache without the lock.
LoadPtr(t) ==
  /\ pc[t] \in {"stload", "fload"}
  /\ tp' = [tp EXCEPT ![t] = cptr]
  /\ pc' = [pc EXCEPT ![t] = IF pc[t] = "stload" THEN "stwrite" ELSE "fread"]
  /\ UNCHANGED <<cptr, cnmax, lock, heap, tn, told, calls, done, fetched, uaf>>
  /\ UNCHANGED notConc

\* fp_one_d_cache_store: mpf_set (c->cache[n], val); c->precision[n] = prec.
StoreWrite(t) ==
  /\ pc[t] = "stwrite"
  /\ IF heap[tp[t]].live
     THEN /\ heap' = [heap EXCEPT ![tp[t]].mem[tn[t] + 1] =
                         [v |-> CachedValue(tn[t]), m |-> ThePrec]]
          /\ UNCHANGED uaf
     ELSE /\ uaf' = TRUE
          /\ UNCHANGED heap
  /\ done' = done \cup {tn[t]}
  /\ pc' = [pc EXCEPT ![t] = "idle"]
  /\ UNCHANGED <<cptr, cnmax, lock, tn, tp, told, calls, fetched>>
  /\ UNCHANGED notConc

\* fp_one_d_cache_fetch: mpf_set (val, c->cache[n]).
FetchRead(t) ==
  /\ pc[t] = "fread"
  /\ IF heap[tp[t]].live
     THEN /\ fetched' = TRUE
          /\ UNCHANGED uaf
     ELSE /\ uaf' = TRUE
          /\ UNCHANGED fetched
  /\ pc' = [pc EXCEPT ![t] = "idle"]
  /\ UNCHANGED <<cptr, cnmax, lock, heap, tn, tp, told, calls, done>>
  /\ UNCHANGED notConc

NextConc ==
  \/ \E t \in Threads : \E n \in 0..MaxIdx : ChkLock(t, n)
  \/ \E t \in Threads : ChkRead(t)
  \/ \E t \in Threads : ChkGrow(t)
  \/ \E t \in Threads : ChkFree(t)
  \/ \E t \in Threads : LoadPtr(t)
  \/ \E t \in Threads : StoreWrite(t)
  \/ \E t \in Threads : FetchRead(t)


(***************************************************************************)
(* The sequential binomial coefficient.                                    *)
(***************************************************************************)
RECURSIVE Gcd(_, _)
Gcd(a, b) == IF b = 0 THEN a ELSE Gcd(b, a % b)

\* i_binomial, i.e. mpz_bin_uiui: the binomial coefficient C(n,k).
RECURSIVE Binomial(_, _)
Binomial(n, k) ==
  IF k > n THEN 0
  ELSE IF k = 0 THEN 1
  ELSE LET g == Gcd(n, k)
       IN (Binomial(n - 1, k - 1) \div (k \div g)) * (n \div g)

EmptyICache == [nmax |-> 0, disabled |-> FALSE, mem |-> <<>>]

\* i_one_d_cache_check, for its effect on the cache.
CheckI(cc, n) ==
  IF cc.disabled THEN cc
  ELSE IF n <= cc.nmax /\ cc.nmax # 0 THEN cc
  ELSE GrowLinear(cc, n)

\* i_one_d_cache_store.
StoreI(cc, v, n) ==
  IF cc.disabled \/ ~InRange(cc, n) THEN cc
  ELSE [cc EXCEPT !.mem[n + 1] = [v |-> v, m |-> 1]]

\* i_one_d_cache_fetch.
FetchI(cc, n) == SlotAt(cc, n).v

FreshBin == [curr_n |-> 0, last_k |-> 0, cur |-> EmptyICache, nxt |-> EmptyICache,
             bin |-> 0, slow |-> FALSE, oob |-> FALSE]

\* The test that opens the gap-filling block.
IsGap(st, n, k) == k > st.last_k + 1 \/ (n > st.curr_n /\ k # 0)

\* StepInRow with the left neighbour read from the wrong slot.
StepInRow_OffByOne(st, n, k) ==
  IF k = n
  THEN [st EXCEPT !.bin = 1, !.nxt = StoreI(st.nxt, 1, k),
                  !.oob = @ \/ ~InRange(st.nxt, k)]
  ELSE IF ~InRange(st.cur, k)
  THEN [st EXCEPT !.oob = TRUE]
  ELSE LET b == FetchI(st.cur, k) + FetchI(st.cur, k)
       IN [st EXCEPT !.bin = b, !.nxt = StoreI(st.nxt, b, k), !.last_k = k,
                     !.oob = @ \/ ~InRange(st.nxt, k)]

\* Standard sequential access: Pascal's rule from the current row.
StepInRow(st, n, k) ==
  IF k = n
  THEN [st EXCEPT !.bin = 1, !.nxt = StoreI(st.nxt, 1, k),
                  !.oob = @ \/ ~InRange(st.nxt, k)]
  ELSE IF ~InRange(st.cur, k)
  THEN [st EXCEPT !.oob = TRUE]
  ELSE LET b == FetchI(st.cur, k - 1) + FetchI(st.cur, k)
       IN [st EXCEPT !.bin = b, !.nxt = StoreI(st.nxt, b, k), !.last_k = k,
                     !.oob = @ \/ ~InRange(st.nxt, k)]

\* Start a new row: swap the caches, make room, store C(n,0).
StartRow(st, n) ==
  [st EXCEPT !.last_k = 0, !.curr_n = n, !.cur = st.nxt,
             !.nxt = StoreI(CheckI(st.cur, n + 1), 1, 0), !.bin = 1]

\* Initialize the sequential access system.
InitSeq(st) ==
  [st EXCEPT !.curr_n = 0, !.last_k = 0, !.cur = CheckI(st.cur, 3),
             !.nxt = CheckI(st.nxt, 3), !.bin = 1]

\* Everything of i_binomial_sequence after the gap-filling block.
Dispatch(st, n, k) ==
  IF k = st.last_k + 1 /\ n = st.curr_n THEN StepInRow(st, n, k)
  ELSE IF k = 0 /\ n = st.curr_n + 1 THEN StartRow(st, n)
  ELSE IF n = 0 /\ k = 0 THEN InitSeq(st)
  ELSE IF k > n THEN [st EXCEPT !.bin = 0]
  ELSE [st EXCEPT !.bin = Binomial(n, k), !.slow = TRUE]

RECURSIVE BinomialSequence(_, _, _)
RECURSIVE FillTo(_, _, _, _)
RECURSIVE FillCurrentRow(_, _)
RECURSIVE FillRows(_, _, _)

\* for (j = from; j < lim; j++) i_binomial_sequence (bin, n, j);
FillTo(st, n, j, lim) ==
  IF j < lim THEN FillTo(BinomialSequence(st, n, j), n, j + 1, lim) ELSE st

\* for (j = last_k+1; j <= curr_n; j++) i_binomial_sequence (bin, curr_n, j);
FillCurrentRow(st, j) ==
  IF j <= st.curr_n
  THEN FillCurrentRow(BinomialSequence(st, st.curr_n, j), j + 1) ELSE st

\* for (m = from; m < n; m++) for (j = 0; j <= m; j++) ...
FillRows(st, m, n) ==
  IF m < n THEN FillRows(FillTo(st, m, 0, m + 1), m + 1, n) ELSE st

\* The gap-filling block.
FillGap(st, n, k) ==
  IF n = st.curr_n
  THEN FillTo(st, n, st.last_k + 1, k)
  ELSE LET s1 == FillCurrentRow(st, st.last_k + 1)
           s2 == FillRows(s1, s1.curr_n + 1, n)
       IN FillTo(s2, n, 0, k)

\* i_binomial_sequence (bin, n, k).
BinomialSequence(st, n, k) ==
  Dispatch(IF IsGap(st, n, k) THEN FillGap(st, n, k) ELSE st, n, k)

\* (n, k) lies ahead of the position the statics stand at.
Ahead(st, n, k) == n > st.curr_n \/ (n = st.curr_n /\ k > st.last_k)

IdleBin ==
  /\ bst = FreshBin
  /\ bin = 0
  /\ bcall = <<0, 0>>
  /\ bslow = FALSE
  /\ bahead = FALSE
  /\ bops = 0

DoCall(n, k) ==
  LET r == BinomialSequence([bst EXCEPT !.slow = FALSE], n, k)
  IN /\ bst' = r
     /\ bin' = r.bin
     /\ bslow' = r.slow
     /\ bcall' = <<n, k>>
     /\ bahead' = Ahead(bst, n, k)
     /\ bops' = bops + 1
     /\ UNCHANGED notBin

\* A caller asking for any coefficient 0 <= k <= n.
CallAny(n, k) ==
  /\ bops < MaxBinOps
  /\ DoCall(n, k)

\* The successor of (n, k) in the order k = 0..n, then n + 1.
SeqSucc(nk) == IF nk[2] < nk[1] THEN <<nk[1], nk[2] + 1>> ELSE <<nk[1] + 1, 0>>

\* A caller walking the coefficients in sequential order from (0,0).
CallNext ==
  LET nk == IF bops = 0 THEN <<0, 0>> ELSE SeqSucc(bcall)
  IN /\ nk[1] <= SeqMax
     /\ bst' = BinomialSequence([bst EXCEPT !.slow = FALSE], nk[1], nk[2])
     /\ bin' = bst'.bin
     /\ bslow' = bst'.slow
     /\ bcall' = nk
     /\ bahead' = Ahead(bst, nk[1], nk[2])
     /\ bops' = 1
     /\ UNCHANGED notBin

NextBin == \E n \in 0..MaxBinN : \E k \in 0..n : CallAny(n, k)

(***************************************************************************)
(* Complex root isolation (mp-zeroiso.c) applied to the polynomials of     *)
(* tests/zero-iso.c.  Lengths are kept as integers in units of 2^-FracBits;*)
(* every box corner, midpoint and radius the runs below produce is a       *)
(* multiple of that unit, so the arithmetic is the exact arithmetic the    *)
(* mpf numbers carry out on these dyadic values.                           *)
(***************************************************************************)
RECURSIVE Pow(_, _)
Pow(b, n) == IF n = 0 THEN 1 ELSE b * Pow(b, n - 1)

K == Pow(2, FracBits)

Abs(x) == IF x < 0 THEN -x ELSE x
Max(a, b) == IF a < b THEN b ELSE a

\* Multi-limb naturals, least significant limb first, for the products the
\* mpf numbers hold and a machine integer of the model does not.
RECURSIVE BigOf(_)
BigOf(n) == IF n = 0 THEN <<>> ELSE <<n % 10000>> \o BigOf(n \div 10000)

BigDigit(a, i) == IF i <= Len(a) THEN a[i] ELSE 0

RECURSIVE BigTrim(_)
BigTrim(a) ==
  IF a # <<>> /\ a[Len(a)] = 0 THEN BigTrim(SubSeq(a, 1, Len(a) - 1)) ELSE a

RECURSIVE BigAddFrom(_, _, _, _)
BigAddFrom(a, b, i, cy) ==
  IF i > Len(a) /\ i > Len(b)
  THEN IF cy = 0 THEN <<>> ELSE <<cy>>
  ELSE LET t == BigDigit(a, i) + BigDigit(b, i) + cy
       IN <<t % 10000>> \o BigAddFrom(a, b, i + 1, t \div 10000)

BigAdd(a, b) == BigTrim(BigAddFrom(a, b, 1, 0))

\* a - b for a >= b
RECURSIVE BigSubFrom(_, _, _, _)
BigSubFrom(a, b, i, bw) ==
  IF i > Len(a) THEN <<>>
  ELSE LET t == a[i] - BigDigit(b, i) - bw
       IN IF t < 0 THEN <<t + 10000>> \o BigSubFrom(a, b, i + 1, 1)
                   ELSE <<t>> \o BigSubFrom(a, b, i + 1, 0)

BigSub(a, b) == BigTrim(BigSubFrom(a, b, 1, 0))

\* a times one limb d
RECURSIVE BigScaleFrom(_, _, _, _)
BigScaleFrom(a, d, i, cy) ==
  IF i > Len(a)
  THEN IF cy = 0 THEN <<>> ELSE <<cy>>
  ELSE LET t == a[i] * d + cy
       IN <<t % 10000>> \o BigScaleFrom(a, d, i + 1, t \div 10000)

RECURSIVE BigMul(_, _)
BigMul(a, b) ==
  IF a = <<>> \/ b = <<>> THEN <<>>
  ELSE LET r == BigMul(a, Tail(b))
       IN BigAdd(BigScaleFrom(a, b[1], 1, 0), IF r = <<>> THEN <<>> ELSE <<0>> \o r)

RECURSIVE BigLessAt(_, _, _)
BigLessAt(a, b, i) ==
  IF i = 0 THEN FALSE
  ELSE IF a[i] # b[i] THEN a[i] < b[i] ELSE BigLessAt(a, b, i - 1)

BigLess(a, b) ==
  Len(a) < Len(b) \/ (Len(a) = Len(b) /\ BigLessAt(a, b, Len(a)))

BigSq(a) == BigMul(a, a)

\* sqrt(a) + sqrt(b) < sqrt(cc), decided without taking a root:
\* a + b + 2 sqrt(a b) < cc  iff  a + b < cc  and  4 a b < (cc - a - b)^2
SumSqrtLess(a, b, cc) ==
  /\ BigLess(BigAdd(a, b), cc)
  /\ BigLess(BigMul(BigOf(4), BigMul(a, b)), BigSq(BigSub(cc, BigAdd(a, b))))

\* A complex number (re + i im) / K^e
Cpx(re, im, e) == [re |-> re, im |-> im, e |-> e]
CpxAlign(a, e) == Cpx(a.re * Pow(K, e - a.e), a.im * Pow(K, e - a.e), e)

cpx_set_ui(x, y) == Cpx(x, y, 0)

cpx_add(a, b) ==
  LET e == Max(a.e, b.e)
      x == CpxAlign(a, e)
      y == CpxAlign(b, e)
  IN Cpx(x.re + y.re, x.im + y.im, e)

cpx_neg(a) == Cpx(-a.re, -a.im, a.e)

cpx_sub(a, b) == cpx_add(a, cpx_neg(b))

cpx_mul(a, b) ==
  Cpx(a.re * b.re - a.im * b.im, a.re * b.im + a.im * b.re, a.e + b.e)

cpx_times_ui(a, n) == Cpx(a.re * n, a.im * n, a.e)

\* n divides K for the divisors used (1 and 2)
cpx_div_ui(a, n) == Cpx(a.re * (K \div n), a.im * (K \div n), a.e + 1)

\* |a|^2 K^4 as a multi-limb natural
cpx_mod_sq(a) ==
  LET x == CpxAlign(a, 2)
  IN BigAdd(BigSq(BigOf(Abs(x.re))), BigSq(BigOf(Abs(x.im))))

\* (x-1)(x-1/2) and its derivatives, as tests/zero-iso.c computes them
poly2(deriv, z) ==
  IF deriv = 0
  THEN cpx_add(cpx_sub(cpx_div_ui(cpx_set_ui(1, 0), 2),
                       cpx_div_ui(cpx_times_ui(z, 3), 2)),
               cpx_mul(z, z))
  ELSE IF deriv = 1
  THEN cpx_add(cpx_neg(cpx_div_ui(cpx_set_ui(3, 0), 2)), cpx_times_ui(z, 2))
  ELSE IF deriv = 2 THEN cpx_set_ui(2, 0)
  ELSE cpx_set_ui(0, 0)

\* i (z-1)(z-1/2)...(z-1/order) and what the test computes as its derivatives
RECURSIVE polyn(_, _, _)
polyn(order, deriv, z) ==
  LET zn == cpx_sub(z, cpx_div_ui(cpx_set_ui(1, 0), order))
  IN IF deriv = 0
     THEN cpx_mul(IF 0 < order - 1 THEN polyn(order - 1, 0, z) ELSE cpx_set_ui(0, 1),
                  zn)
     ELSE IF order = 1 THEN cpx_set_ui(0, 1)
     ELSE IF deriv <= order
     THEN cpx_add(cpx_mul(polyn(order - 1, deriv, z), zn),
                  polyn(order - 1, deriv - 1, z))
     ELSE cpx_set_ui(0, 0)

Poly2 == [name |-> "poly2", order |-> 2]
PolyN(n) == [name |-> "polyn", order |-> n]

PolyEval(p, deriv, z) ==
  IF p.name = "poly2" THEN poly2(deriv, z) ELSE polyn(p.order, deriv, z)

\* |f^(deriv)(z)|^2 K^4
PolyNormSq(p, deriv, z) == cpx_mod_sq(PolyEval(p, deriv, z))

\* The bound test_fun computes is (sqrt(a) + sqrt(b)) / sqrt(d): the terms
\* |f^(k+offset)| r^k / k! for k = 1 and k = 2, over |f^(offset)|, each
\* squared and scaled by 4 K^4, with r = radius / K.
test_fun(p, deg, center, radius, offset) ==
  [a |-> IF deg - offset >= 1
         THEN BigMul(BigSq(BigOf(2 * K * radius)), PolyNormSq(p, 1 + offset, center))
         ELSE <<>>,
   b |-> IF deg - offset >= 2
         THEN BigMul(BigSq(BigOf(radius * radius)), PolyNormSq(p, 2 + offset, center))
         ELSE <<>>,
   d |-> BigMul(BigSq(BigOf(2 * K * K)), PolyNormSq(p, offset, center))]

\* mpf_div by zero raises SIGFPE
test_fun_fpe(p, deg, center, radius, offset) ==
  test_fun(p, deg, center, radius, offset).d = <<>>

\* offset 0: bound < 1; offset 1: bound < sqrt(2)/2
test_predicate(p, deg, center, radius, offset) ==
  LET est == test_fun(p, deg, center, radius, offset)
  IN IF offset = 0
     THEN SumSqrtLess(est.a, est.b, est.d)
     ELSE SumSqrtLess(BigMul(BigOf(2), est.a), BigMul(BigOf(2), est.b), est.d)

\* |ca - cb| - ra < rb
disk_intersect(ca, ra, cb, rb) ==
  /\ ra + rb > 0
  /\ (ca.re - cb.re) * (ca.re - cb.re) + (ca.im - cb.im) * (ca.im - cb.im)
        < (ra + rb) * (ra + rb)

Pt(x, y) == [re |-> x, im |-> y]

box_midpoint(box) ==
  Pt((box.boxll.re + box.boxur.re) \div 2, (box.boxll.im + box.boxur.im) \div 2)

box_radius(box) ==
  (3 * Max(box.boxur.re - box.boxll.re, box.boxur.im - box.boxll.im)) \div 4

box_delete(h) == Tail(h)

\* The list after the split: UL, UR, LL, then the original node as LR
box_split_NoClobber(h) ==
  LET orig == h[1]
      center == box_midpoint(orig)
  IN << [boxll |-> Pt(orig.boxll.re, center.im), boxur |-> Pt(center.re, orig.boxur.im)],
        [boxll |-> center, boxur |-> orig.boxur],
        [boxll |-> orig.boxll, boxur |-> center],
        orig >>
     \o Tail(h)

box_split(h) ==
  LET orig == h[1]
      center == box_midpoint(orig)
  IN << [boxll |-> Pt(orig.boxll.re, center.im), boxur |-> Pt(center.re, orig.boxur.im)],
        [boxll |-> center, boxur |-> orig.boxur],
        [boxll |-> orig.boxll, boxur |-> center],
        [boxll |-> Pt(center.re, orig.boxll.im), boxur |-> Pt(orig.boxur.re, center.im)] >>
     \o Tail(h)

\* The polynomials and search boxes the calls are made with
Polys == {Poly2, PolyN(1), PolyN(2)}
TestBox == [boxll |-> Pt(-2 * K, -2 * K), boxur |-> Pt(2 * K, 2 * K)]
SwappedBox == [boxll |-> Pt(2 * K, 2 * K), boxur |-> Pt(-2 * K, -2 * K)]
RootBox == [boxll |-> Pt(0, -K), boxur |-> Pt(2 * K, K)]
UnitBox == [boxll |-> Pt(0, 0), boxur |-> Pt(K, K)]
Boxes == {TestBox, SwappedBox, RootBox, UnitBox}

\* What the caller's arrays hold before the first call: mpf_init's zeros,
\* or a disk away from every search box
ZeroDisk == [ctr |-> Pt(0, 0), rad |-> 0]
FarDisk == [ctr |-> Pt(16 * K, 16 * K), rad |-> 0]
CallerDisks == {ZeroDisk, FarDisk}
Slots == 0..MaxDegree

IdleIso ==
  /\ poly = Poly2 /\ degree = 2
  /\ boxll = Pt(0, 0) /\ boxur = Pt(0, 0)
  /\ head = <<>>
  /\ centers = [n \in Slots |-> ZeroDisk.ctr]
  /\ radii = [n \in Slots |-> ZeroDisk.rad]
  /\ nfound = 0 /\ ipc = "idle" /\ ret = -1
  /\ written = {} /\ icalls = 0 /\ isteps = 0

InitIso ==
  /\ poly = Poly2 /\ degree = 2
  /\ boxll = Pt(0, 0) /\ boxur = Pt(0, 0)
  /\ head = <<>>
  /\ \E dsk \in CallerDisks :
        /\ centers = [n \in Slots |-> dsk.ctr]
        /\ radii = [n \in Slots |-> dsk.rad]
  /\ nfound = 0 /\ ipc = "idle" /\ ret = -1
  /\ written = {} /\ icalls = 0 /\ isteps = 0

\* The head box's midpoint and radius, and the two predicates on it
Midpoint == box_midpoint(head[1])
Radius == box_radius(head[1])
Center == Cpx(Midpoint.re, Midpoint.im, 1)
Looping == ipc = "loop" /\ head # <<>>
Fpe0 == test_fun_fpe(poly, degree, Center, Radius, 0)
Test0 == test_predicate(poly, degree, Center, Radius, 0)
Fpe1 == test_fun_fpe(poly, degree, Center, Radius, 1)
Test1 == test_predicate(poly, degree, Center, Radius, 1)

\* Entry of cpx_isolate_roots: swap the corners if needed, start the list
IsolateRoots(p, b) ==
  /\ ipc \in {"idle", "returned"}
  /\ icalls < MaxIsoCalls
  /\ poly' = p /\ degree' = p.order
  /\ boxll' = Pt(IF b.boxll.re > b.boxur.re THEN b.boxur.re ELSE b.boxll.re,
                 IF b.boxll.im > b.boxur.im THEN b.boxur.im ELSE b.boxll.im)
  /\ boxur' = Pt(IF b.boxll.re > b.boxur.re THEN b.boxll.re ELSE b.boxur.re,
                 IF b.boxll.im > b.boxur.im THEN b.boxll.im ELSE b.boxur.im)
  /\ head' = <<[boxll |-> boxll', boxur |-> boxur']>>
  /\ nfound' = 0 /\ ipc' = "loop" /\ written' = {} /\ icalls' = icalls + 1
  /\ isteps' = 0
  /\ UNCHANGED <<centers, radii, ret>>
  /\ UNCHANGED notIso

\* A division by zero inside test_fun kills the process
DivideByZero ==
  /\ Looping
  /\ Fpe0 \/ (~Test0 /\ Fpe1)
  /\ ipc' = "fpe"
  /\ UNCHANGED <<poly, degree, boxll, boxur, head, centers, radii, nfound, ret,
                 written, icalls>>
  /\ isteps' = isteps + 1
  /\ UNCHANGED notIso

\* First test passes: the box is empty
Discard ==
  /\ Looping
  /\ ~Fpe0 /\ Test0
  /\ head' = box_delete(head)
  /\ UNCHANGED <<poly, degree, boxll, boxur, centers, radii, nfound, ipc, ret,
                 written, icalls>>
  /\ isteps' = isteps + 1
  /\ UNCHANGED notIso

\* Second test fails: split into four
Split ==
  /\ Looping
  /\ ~Fpe0 /\ ~Test0 /\ ~Fpe1 /\ ~Test1
  /\ head' = box_split(head)
  /\ UNCHANGED <<poly, degree, boxll, boxur, centers, radii, nfound, ipc, ret,
                 written, icalls>>
  /\ isteps' = isteps + 1
  /\ UNCHANGED notIso

\* Second test passes: record the disk, or merge it into the first slot
\* among 0..nfound that it intersects
Resolve ==
  /\ Looping
  /\ ~Fpe0 /\ ~Test0 /\ ~Fpe1 /\ Test1
  /\ LET radius == Radius * 2 * degree
         hits == {n \in 0..nfound :
                     disk_intersect(centers[n], radii[n], Midpoint, radius)}
     IN IF hits # {}
        THEN LET n == CHOOSE m \in hits : \A j \in hits : m <= j
             IN /\ IF radii[n] > radius
                   THEN /\ centers' = [centers EXCEPT ![n] = Midpoint]
                        /\ radii' = [radii EXCEPT ![n] = radius]
                        /\ written' = written \cup {n}
                   ELSE UNCHANGED <<centers, radii, written>>
                /\ nfound' = nfound
        ELSE /\ centers' = [centers EXCEPT ![nfound] = Midpoint]
             /\ radii' = [radii EXCEPT ![nfound] = radius]
             /\ written' = written \cup {nfound}
             /\ nfound' = nfound + 1
  /\ head' = box_delete(head)
  /\ UNCHANGED <<poly, degree, boxll, boxur, ipc, ret, icalls>>
  /\ isteps' = isteps + 1
  /\ UNCHANGED notIso

\* The list is empty: return the count
Return ==
  /\ ipc = "loop" /\ head = <<>>
  /\ ipc' = "returned" /\ ret' = nfound
  /\ UNCHANGED <<poly, degree, boxll, boxur, head, centers, radii, nfound,
                 written, icalls>>
  /\ isteps' = isteps + 1
  /\ UNCHANGED notIso

NextIso ==
  \/ \E p \in Polys, b \in Boxes : IsolateRoots(p, b)
  \/ DivideByZero
  \/ Discard
  \/ Split
  \/ Resolve
  \/ Return

(***************************************************************************)
(* The disk cache (db-cache.c): one hash file per name, holding for each   *)
(* index a "val[idx]" record, the decimal rendering of the value, and a    *)
(* "prec[idx]" record, the number of digits it was rendered with.          *)
(***************************************************************************)
DbNames == {"zeta.db", "locked.db", "nodir/zeta.db"}
DbValues == {125, 995}
DbIdx == 0..MaxDbIdx
DbPrecs == 1..MaxDbPrec
NoRec == [str |-> <<>>, nprec |-> -1]
NoFile == [exists |-> FALSE, val |-> [i \in DbIdx |-> <<>>], prec |-> [i \in DbIdx |-> -1]]
NoCall == [op |-> "none", dbname |-> "", idx |-> 0, nprec |-> 0, val |-> 0]

EmptyFile == [NoFile EXCEPT !.exists = TRUE]

\* dbopen with O_CREAT fails when the directory of the name does not exist
Creatable(name) == name # "nodir/zeta.db"

\* a file the process has no permission to open
Denied(name) == name = "locked.db"

\* dbopen: "ok", or the errno it leaves when it returns NULL
dbopen(name, o_creat) ==
  IF Denied(name) THEN "EACCES"
  ELSE IF dbfile[name].exists THEN "ok"
  ELSE IF o_creat /\ Creatable(name) THEN "ok"
  ELSE "ENOENT"

\* fp_cache_put's two attempts: open, and create when the file is not there
OpenForPut(name) ==
  IF dbopen(name, FALSE) = "ENOENT" THEN dbopen(name, TRUE) ELSE dbopen(name, FALSE)

RECURSIVE NumDigits(_)
NumDigits(v) == IF v < 10 THEN 1 ELSE 1 + NumDigits(v \div 10)

RECURSIVE StripZeros(_)
StripZeros(m) == IF m # 0 /\ m % 10 = 0 THEN StripZeros(m \div 10) ELSE m

\* gmp_snprintf "%.*Fg": v rounded to nprec significant digits, trailing
\* zeros dropped; the string is kept as its digits and its decimal exponent
FormatFg(v, nprec) ==
  LET nd == NumDigits(v)
      cut == IF nd > nprec THEN Pow(10, nd - nprec) ELSE 1
      q == (2 * v + cut) \div (2 * cut)
      ex == IF NumDigits(q * cut) > nd THEN nd ELSE nd - 1
  IN [digits |-> StripZeros(q), exp |-> ex]

\* mpf_set_str in base 10: the number the string denotes
mpf_set_str(str) ==
  str.digits * Pow(10, str.exp - (NumDigits(str.digits) - 1))

\* fp_cache_get's precision gate
EnoughPrec_OffByOne(nprec, have_prec) == ~(nprec >= have_prec)

EnoughPrec(nprec, have_prec) == ~(nprec > have_prec)

IdleDb ==
  /\ dbfile = [name \in DbNames |-> IF Denied(name) THEN EmptyFile ELSE NoFile]
  /\ dval = 0 /\ dret = 0 /\ dcall = NoCall
  /\ derr = "" /\ dfail = "ok"
  /\ dlast = [name \in DbNames |-> [i \in DbIdx |-> NoRec]]
  /\ dops = 0

fp_cache_put(name, v, idx, nprec) ==
  /\ dops < MaxDbOps
  /\ dcall' = [op |-> "put", dbname |-> name, idx |-> idx, nprec |-> nprec, val |-> v]
  /\ dops' = dops + 1
  /\ dfail' = OpenForPut(name)
  /\ derr' = IF OpenForPut(name) = "ok" THEN "" ELSE "Error: cannot open the cache file"
  /\ IF OpenForPut(name) = "ok"
     THEN /\ dbfile' = [dbfile EXCEPT ![name] =
                 [exists |-> TRUE,
                  val |-> [@.val EXCEPT ![idx] = FormatFg(v, nprec)],
                  prec |-> [@.prec EXCEPT ![idx] = nprec]]]
          /\ dlast' = [dlast EXCEPT ![name][idx] =
                          [str |-> FormatFg(v, nprec), nprec |-> nprec]]
     ELSE UNCHANGED <<dbfile, dlast>>
  /\ UNCHANGED <<dval, dret>>
  /\ UNCHANGED notDb

fp_cache_get(name, idx, nprec) ==
  /\ dops < MaxDbOps
  /\ dcall' = [op |-> "get", dbname |-> name, idx |-> idx, nprec |-> nprec, val |-> 0]
  /\ dops' = dops + 1
  /\ dfail' = dbopen(name, FALSE)
  /\ derr' = ""
  /\ IF dbopen(name, FALSE) # "ok" THEN dret' = 0 /\ dval' = dval
     ELSE IF dbfile[name].prec[idx] = -1 THEN dret' = 0 /\ dval' = dval
     ELSE IF ~EnoughPrec(nprec, dbfile[name].prec[idx]) THEN dret' = 0 /\ dval' = dval
     ELSE IF dbfile[name].val[idx] = <<>> THEN dret' = 0 /\ dval' = dval
     ELSE /\ dval' = mpf_set_str(dbfile[name].val[idx])
          /\ dret' = dbfile[name].prec[idx]
  /\ UNCHANGED <<dbfile, dlast>>
  /\ UNCHANGED notDb

NextDb ==
  \/ \E name \in DbNames, v \in DbValues, idx \in DbIdx, nprec \in DbPrecs :
        fp_cache_put(name, v, idx, nprec)
  \/ \E name \in DbNames, idx \in DbIdx, nprec \in 1..(MaxDbPrec + 1) :
        fp_cache_get(name, idx, nprec)

(***************************************************************************)
(* The polylogarithm Li_s(z): the domain navigation of cpx_polylog and     *)
(* cpx_polylog_away and the power cache the Borwein sum reads.  s = 2      *)
(* throughout.  The argument is z = 2^j i^q, a power of two turned by a    *)
(* multiple of a quarter turn: on these points squaring and negation are   *)
(* exact, and so are the double-precision tests the navigation makes.      *)
(* A computed number is identified by the operands that went into it and   *)
(* by the number of limbs of each, which is what two results must share    *)
(* to be the same bits.                                                    *)
(***************************************************************************)
Min(a, b) == IF a < b THEN a ELSE b

Ess == 2
LimbBits == 64
DepthAway == 9
DepthTowards == 5
IntLow == -1000000
IntHigh == 1000000

\* What (int) of a NaN or an infinite double may produce.
UBTerms == {IntLow, IntHigh}

ZPt(j, q) == [j |-> j, q |-> q]
ZGrid == {ZPt(j, q) : j \in (-1)..MaxZExp, q \in 0..2}
PolyPrecs == {2, MaxPolyPrec}
PolyBits == {LimbBits, 2 * LimbBits}

\* cos of q quarter turns
CosQ(q) == IF q = 0 THEN 1 ELSE IF q = 2 THEN -1 ELSE 0

\* cpx_mul (zsq, zee, zee) and cpx_neg (zsq, zee)
zee_sq(z) == ZPt(2 * z.j, (2 * z.q) % 4)
zee_neg(z) == ZPt(z.j, (z.q + 2) % 4)

\* |z|^2 as a fraction n/d
polylog_modsq(z) ==
  IF z.j >= 0 THEN [n |-> Pow(4, z.j), d |-> 1] ELSE [n |-> 1, d |-> Pow(4, -z.j)]

\* |z^2/(z-1)|^2 as a fraction n/d; d = 0 at z = 1, where the double is a NaN
polylog_get_zone(z) ==
  IF z.j >= 0
  THEN [n |-> Pow(16, z.j),
        d |-> Pow(4, z.j) - Pow(2, z.j + 1) * CosQ(z.q) + 1]
  ELSE [n |-> 1,
        d |-> Pow(4, -z.j) * (Pow(4, -z.j) - Pow(2, 1 - z.j) * CosQ(z.q) + 1)]

\* Comparisons of a fraction with a/b; every comparison with a NaN is false.
FracGt(f, a, b) == f.d # 0 /\ f.n * b > a * f.d
FracLt(f, a, b) == f.d # 0 /\ f.n * b < a * f.d

RECURSIVE BigPow(_, _)
BigPow(b, n) == IF n = 0 THEN BigOf(1) ELSE BigMul(BigPow(b, n - 1), BigOf(b))

\* The largest k with dk * b^k <= n, for dk <= n: the integer part of a
\* quotient of logarithms.
RECURSIVE FloorLogFrom(_, _, _, _)
FloorLogFrom(n, dk, b, k) ==
  IF BigLess(n, BigMul(dk, b)) THEN k ELSE FloorLogFrom(n, BigMul(dk, b), b, k + 1)

\* Number of terms of the Borwein sum for 10^-prec at s = 2, where lgamma
\* is 0: (int) (1 + (prec log 10 + cterms) / (log 4 - log(den)/2)), which
\* is 1 + floor of log(A^2)/log(16/den) with A = 10^prec, divided by |z-1|
\* for 0 < z < 1.  Where the double is a NaN or infinite (z = 1, and z > 1
\* real, where log(zim) is taken of 0) the conversion to int is undefined
\* and gives ub.  Outside the unit disc both callers discard the estimate
\* (den > 1.5 decides first), and the model gives ub there as well.
polylog_terms_est(z, prec, ub) ==
  LET zone == polylog_get_zone(z)
      inside == z.q = 0 /\ z.j < 0
      a2n == IF inside THEN BigMul(BigPow(100, prec), BigOf(Pow(4, -z.j)))
                       ELSE BigPow(100, prec)
      a2d == IF inside THEN BigOf((Pow(2, -z.j) - 1) * (Pow(2, -z.j) - 1))
                       ELSE BigOf(1)
  IN IF zone.d = 0 \/ z.j >= 1 THEN ub
     ELSE 1 + FloorLogFrom(a2n, a2d, BigOf(16 * zone.d), 0)

\* maxterms = nbits - (int) (3.321928095 * prec), the product taken in
\* millionths and thousandths of millionths
MaxTerms(nbits, prec) ==
  nbits - (3 * prec + (321928 * prec + (95 * prec) \div 1000) \div 1000000)

\* prec += (int) (0.301029996 * nterms) + 1
WorkPrec(prec, nterms) ==
  prec + (301029 * nterms + (996 * nterms) \div 1000) \div 1000000 + 1

\* Limbs of an mpf_t of the given precision in bits (at least 53).
PrecLimbs(bits) == (Max(53, bits) + 2 * LimbBits - 1) \div LimbBits

\* Limbs of a variable initialised at the default precision nbits.
WorkLimbs(nbits) == PrecLimbs(nbits)

\* Limbs of a cache slot: cpx_set_prec (c->cache[n], 3.22*prec+50)
SlotLimbs(prec) == PrecLimbs((322 * prec) \div 100 + 50)

\* Limbs of k^s as cpx_ui_pow leaves it in a variable of default precision.
cpx_ui_pow(k, nbits) == IF k = 1 THEN WorkLimbs(nbits) ELSE WorkLimbs(nbits) + 1

\* cpx_one_d_cache_store: the slot keeps at most its own precision plus a limb.
cpx_one_d_cache_store(limbs, prec) == [v |-> Min(limbs, SlotLimbs(prec) + 1), m |-> prec]

\* cpx_one_d_cache_fetch into a variable of default precision.
cpx_one_d_cache_fetch(cc, k, nbits) == Min(SlotAt(cc, k).v, WorkLimbs(nbits) + 1)

PowCache0 == [cache_s |-> 0, precision |-> 0, c |-> [nmax |-> 0, mem |-> <<>>]]

\* The head of cpx_ui_pow_cache (powc, k, ess, prec) with ess = -2: the
\* statics once precision and cache_s have been brought up to date.
PowSync(pw, prec) ==
  LET p1 == IF pw.precision < prec THEN [pw EXCEPT !.precision = prec] ELSE pw
  IN IF p1.cache_s # -Ess
     THEN [p1 EXCEPT !.c = ClearMem(p1.c), !.cache_s = -Ess]
     ELSE p1

\* prec <= cpx_one_d_cache_check (&powcache, k)
PowHit(cc, k, prec) == k <= cc.nmax /\ cc.nmax # 0 /\ prec <= CheckHit(cc, k)

\* The rest of cpx_ui_pow_cache: the limbs of the value handed back, and
\* the slot k afterwards.
cpx_ui_pow_cache(cc, k, prec, nbits) ==
  IF PowHit(cc, k, prec)
  THEN [v |-> cpx_one_d_cache_fetch(cc, k, nbits), slot |-> SlotAt(cc, k)]
  ELSE [v |-> cpx_ui_pow(k, nbits),
        slot |-> cpx_one_d_cache_store(cpx_ui_pow(k, nbits), prec)]

\* The array after cpx_one_d_cache_check of 1, 2, .. last in this order:
\* it grows at the first index it does not hold.
RECURSIVE GrowUntil(_, _)
GrowUntil(cc, last) ==
  IF last <= cc.nmax /\ cc.nmax # 0 THEN cc
  ELSE GrowUntil(GrowLinear(cc, IF cc.nmax = 0 THEN 1 ELSE cc.nmax + 1), last)

\* A value: how it was computed, from which point, and the limbs of the
\* powers k^s that entered it.
PVal(o, z, n, terms, sub) == [op |-> o, z |-> z, n |-> n, terms |-> terms, sub |-> sub]
Zero == PVal("zero", ZPt(0, 0), 0, <<>>, <<>>)
Unwritten == PVal("unwritten", ZPt(0, 0), 0, <<>>, <<>>)

\* What a step of the navigation hands back: the status, the value written
\* to plog (Unwritten when plog was not touched), the power cache, the
\* depth at which a failure was raised, and whether the process died of a
\* division by zero instead of returning; then, for the navigation as a
\* whole, the number of recurse_away_polylog and recurse_towards_polylog
\* invocations, the largest depth one of them was entered with, and whether
\* "excessive recursion" went to standard error.
Res(rc, val, pw, at, fpe) ==
  [rc |-> rc, val |-> val, pw |-> pw, at |-> at, fpe |-> fpe,
   n |-> 0, deep |-> 0, err |-> FALSE]

\* The depth tests at the head of the two recursions.
AwayTooDeep_Later(depth) == DepthAway + 2 < depth
AwayTooDeep(depth) == DepthAway < depth
TowardsTooDeep(depth) == DepthTowards < depth

\* fprintf (stderr, "excessive recursion ..."); return 1;
Excessive(pw, depth) == [Res(1, Unwritten, pw, depth, FALSE) EXCEPT !.err = TRUE]

\* One invocation, entered with this depth, that came to r.
Entered(depth, r) ==
  [r EXCEPT !.n = @ + 1, !.deep = IF depth > @ THEN depth ELSE @]

\* The second of two evaluations, run after the first.
After(first, second) ==
  [second EXCEPT !.n = @ + first.n,
                 !.deep = IF first.deep > @ THEN first.deep ELSE @,
                 !.err = @ \/ first.err]

\* The powers k^s of the two loops of polylog_borwein, k = 1..last in this
\* order, each through cpx_ui_pow_cache: slot k is read and written at step
\* k only, so every step sees the slot as the sum found it.
BorweinTerms(pw, last, prec, nbits) ==
  LET p2 == PowSync(pw, prec)
      g == GrowUntil(p2.c, last)
  IN [terms |-> [k \in 1..last |-> cpx_ui_pow_cache(p2.c, k, prec, nbits).v],
      pw |-> [p2 EXCEPT !.c = [g EXCEPT !.mem = [i \in 1..Len(g.mem) |->
                 IF i - 1 >= 1 /\ i - 1 <= last
                 THEN cpx_ui_pow_cache(p2.c, i - 1, prec, nbits).slot
                 ELSE g.mem[i]]]]]

\* polylog_borwein: 1/(z-1) is taken first, a division by zero at z = 1.
polylog_borwein(pw, z, norder, prec, nbits) ==
  IF polylog_get_zone(z).d = 0 THEN Res(0, Unwritten, pw, 0, TRUE)
  ELSE LET t == BorweinTerms(pw, 2 * norder, prec, nbits)
       IN Res(0, PVal("borwein", z, norder, t.terms, <<>>), t.pw, 0, FALSE)

\* polylog_invert at s = 2: cpx_gamma_cache is called at 1-s = -1, a pole of
\* the gamma function, where it divides by zero.
polylog_invert(pw, z, prec) == Res(0, Unwritten, pw, 0, TRUE)

RECURSIVE recurse_away_polylog(_, _, _, _, _, _)
RECURSIVE polylog_recurse_duple(_, _, _, _, _, _)

polylog_recurse_duple(pw, z, prec, depth, ub, nbits) ==
  LET pp == recurse_away_polylog(pw, zee_sq(z), prec, depth, ub, nbits)
  IN IF pp.fpe \/ pp.rc # 0 THEN [pp EXCEPT !.val = Unwritten]
     ELSE LET pn == recurse_away_polylog(pp.pw, zee_neg(z), prec, depth, ub, nbits)
          IN IF pn.fpe \/ pn.rc # 0 THEN After(pp, [pn EXCEPT !.val = Unwritten])
             ELSE After(pp, After(pn,
                    Res(0, PVal("duple", z, 0, <<>>, <<pp.val, pn.val>>), pn.pw, 0, FALSE)))

recurse_away_polylog(pw, z, prec, depth, ub, nbits) ==
  Entered(depth,
    IF FracGt(polylog_modsq(z), 25, 1) THEN Res(1, Unwritten, pw, depth, FALSE)
    ELSE IF AwayTooDeep(depth) THEN Excessive(pw, depth)
    ELSE LET nterms == polylog_terms_est(z, prec, ub)
         IN IF FracGt(polylog_get_zone(z), 3, 2) \/ MaxTerms(nbits, prec) < nterms
            THEN polylog_recurse_duple(pw, z, prec, depth + 1, ub, nbits)
            ELSE polylog_borwein(pw, z, nterms, WorkPrec(prec, nterms), nbits))

\* The square-root branch is taken for log |z|^2 >= 6.28 only, beyond every
\* point of ZGrid; the model does not follow it.
recurse_towards_polylog(pw, z, prec, depth, ub, nbits) ==
  Entered(depth,
    IF TowardsTooDeep(depth) THEN Excessive(pw, depth)
    ELSE LET nterms == polylog_terms_est(z, prec, ub)
         IN IF FracLt(polylog_get_zone(z), 3, 2) /\ MaxTerms(nbits, prec) > nterms
            THEN polylog_borwein(pw, z, nterms, WorkPrec(prec, nterms), nbits)
            ELSE IF ~FracGt(polylog_modsq(z), 1, 1)
            THEN recurse_away_polylog(pw, z, prec, depth + 1, ub, nbits)
            ELSE polylog_invert(pw, z, prec))

\* What plog holds once the navigation is over: its content before the
\* call where nothing wrote it.
PlogAfter(r, plog) == IF r.val = Unwritten THEN plog ELSE r.val

\* The tail of cpx_polylog and of cpx_polylog_away: a failed navigation
\* zeroes the result.
cpx_polylog_NoReset(r, plog) == PlogAfter(r, plog)
cpx_polylog(r, plog) == IF r.rc # 0 THEN Zero ELSE PlogAfter(r, plog)
cpx_polylog_away(r, plog) == IF r.rc # 0 THEN Zero ELSE PlogAfter(r, plog)

PolyCall(fn, z, prec) == [fn |-> fn, z |-> z, prec |-> prec]
NoPolyCall == PolyCall("none", ZPt(0, 0), 0)
NoFail == [failed |-> FALSE, at |-> 0, stale |-> Zero, n |-> 0, deep |-> 0, err |-> FALSE]

IdlePl ==
  /\ pbits = LimbBits /\ ppow = PowCache0 /\ pcall = NoPolyCall /\ prc = 0
  /\ pval = Zero /\ pfail = NoFail /\ pcalls = 0 /\ pfpe = FALSE
  /\ pprev = [call |-> NoPolyCall, rc |-> 0, val |-> Zero]

\* main: mpf_set_default_prec, then the calls.
InitPl ==
  /\ pbits \in PolyBits /\ ppow = PowCache0 /\ pcall = NoPolyCall /\ prc = 0
  /\ pval = Zero /\ pfail = NoFail /\ pcalls = 0 /\ pfpe = FALSE
  /\ pprev = [call |-> NoPolyCall, rc |-> 0, val |-> Zero]

\* One call; the caller hands in the variable that holds the last result.
Returned(fn, z, prec, r, plog) ==
  /\ pcall' = PolyCall(fn, z, prec)
  /\ pprev' = [call |-> pcall, rc |-> prc, val |-> pval]
  /\ pcalls' = pcalls + 1
  /\ ppow' = r.pw
  /\ pfpe' = r.fpe
  /\ prc' = IF r.fpe THEN prc ELSE r.rc
  /\ pval' = IF r.fpe THEN pval ELSE plog
  /\ pfail' = [failed |-> ~r.fpe /\ r.rc # 0, at |-> r.at, stale |-> pval,
               n |-> r.n, deep |-> r.deep, err |-> r.err]
  /\ UNCHANGED pbits
  /\ UNCHANGED notPl

CallPolylog(z, prec, ub) ==
  /\ pcalls < MaxPolyCalls /\ ~pfpe
  /\ LET r == recurse_towards_polylog(ppow, z, prec, 0, ub, pbits)
     IN Returned("cpx_polylog", z, prec, r, cpx_polylog(r, pval))

CallPolylogAway(z, prec, ub) ==
  /\ pcalls < MaxPolyCalls /\ ~pfpe
  /\ LET r == recurse_away_polylog(ppow, z, prec, 0, ub, pbits)
     IN Returned("cpx_polylog_away", z, prec, r, cpx_polylog_away(r, pval))

NextPl ==
  \/ \E z \in ZGrid, prec \in PolyPrecs, ub \in UBTerms : CallPolylog(z, prec, ub)
  \/ \E z \in ZGrid, prec \in PolyPrecs, ub \in UBTerms : CallPolylogAway(z, prec, ub)

(***************************************************************************)
(* fp_pow_rc and cpx_pow_rc: (k+q)^s behind two one-dimensional caches,    *)
(* one per (q, s) context.  The two functions differ only in the type of   *)
(* q; each has its own statics.                                            *)
(***************************************************************************)
RcFns == {"fp_pow_rc", "cpx_pow_rc"}

\* A context is a (q, s) pair.  CtxZero is the (0, 0) that mpf_init and
\* cpx_init leave in cache_q_one, cache_s_one, cache_q_two, cache_s_two.
CtxZero == 0
CtxA == 1
CtxB == 2
Contexts == {CtxA, CtxB}
RcPrecs == 1..MaxRcPrec
RcKs == 0..MaxRcK

\* cpx_one_d_cache_check (powcache, 4) on the slot taken over
RcFirstSize == 4

\* The value (k+q)^s, named by its arguments.
PowVal(ctx, k) == 10 * ctx + k + 1

RcSlot0 == [qs |-> CtxZero, c |-> [nmax |-> 0, mem |-> <<>>]]
RcStatics0 == [precision |-> 0, slot |-> <<RcSlot0, RcSlot0>>, next |-> 0]

\* if (!precision) {...}  if (precision < prec) {...}
RcSync(st, prec) ==
  LET s0 == IF st.precision = 0 THEN [st EXCEPT !.next = 1] ELSE st
  IN IF s0.precision < prec
     THEN [s0 EXCEPT !.precision = prec,
                     !.slot[1].c = ClearMem(@), !.slot[2].c = ClearMem(@)]
     ELSE s0

\* cpx_one_d_cache_check (c, k): the precision found and the cache afterwards.
RcCheck(cc, k) ==
  IF k <= cc.nmax /\ cc.nmax # 0
  THEN [c |-> cc, p |-> CheckHit(cc, k)]
  ELSE [c |-> GrowLinear(cc, k), p |-> 0]

\* cpx_one_d_cache_store (powcache, powc, k, prec)
RcStore(cc, k, v, prec) == [cc EXCEPT !.mem[k + 1] = [v |-> v, m |-> prec]]

RcOut(st, v, hit, cleared) == [st |-> st, v |-> v, hit |-> hit, cleared |-> cleared]

\* The body of fp_pow_rc / cpx_pow_rc.  cleared is the context whose cache
\* the call emptied to make room, -1 when it emptied none.
pow_rc(st, ctx, k, prec) ==
  LET s1 == RcSync(st, prec)
      m1 == s1.slot[1].qs = ctx
      chk1 == RcCheck(s1.slot[1].c, k)
      hit1 == m1 /\ prec <= chk1.p
      s2 == IF m1 THEN [s1 EXCEPT !.slot[1].c = chk1.c, !.next = 2] ELSE s1
      m2 == s2.slot[2].qs = ctx
      chk2 == RcCheck(s2.slot[2].c, k)
      hit2 == m2 /\ prec <= chk2.p
      s3 == IF m2 THEN [s2 EXCEPT !.slot[2].c = chk2.c, !.next = 1] ELSE s2
      powcache == IF m2 THEN 2 ELSE IF m1 THEN 1 ELSE 0
      target == IF powcache = 0 THEN s3.next ELSE powcache
      s4 == IF powcache = 0
            THEN [s3 EXCEPT !.slot[target] =
                     [qs |-> ctx,
                      c |-> RcCheck(ClearMem(s3.slot[target].c), RcFirstSize).c]]
            ELSE s3
      s5 == [s4 EXCEPT !.slot[target].c = RcStore(@, k, PowVal(ctx, k), prec)]
  IN IF hit1 THEN RcOut(s1, SlotAt(s1.slot[1].c, k).v, TRUE, -1)
     ELSE IF hit2 THEN RcOut(s2, SlotAt(s2.slot[2].c, k).v, TRUE, -1)
     ELSE RcOut(s5, PowVal(ctx, k), FALSE,
                IF powcache = 0 THEN s3.slot[target].qs ELSE -1)

NoRcCall == [fn |-> "none", ctx |-> CtxZero, k |-> 0, prec |-> 0, v |-> 0,
             hit |-> FALSE, cleared |-> -1, bothSeen |-> FALSE, repeated |-> FALSE]

IdleRc ==
  /\ rcst = [f \in RcFns |-> RcStatics0]
  /\ rclog = NoRcCall
  /\ rcseen = [f \in RcFns |-> {}]
  /\ rcdone = [f \in RcFns |-> {}]
  /\ rccalls = 0

RcReturned(fn, ctx, k, prec) ==
  LET r == pow_rc(rcst[fn], ctx, k, prec)
  IN /\ rcst' = [rcst EXCEPT ![fn] = r.st]
     /\ rclog' = [fn |-> fn, ctx |-> ctx, k |-> k, prec |-> prec, v |-> r.v,
                  hit |-> r.hit, cleared |-> r.cleared,
                  bothSeen |-> Contexts \subseteq rcseen[fn],
                  repeated |-> rcst[fn].precision >= prec
                               /\ <<ctx, k, prec>> \in rcdone[fn]]
     /\ rcseen' = [rcseen EXCEPT ![fn] = @ \cup {ctx}]
     /\ rcdone' = [rcdone EXCEPT ![fn] =
                     (IF rcst[fn].precision < prec THEN {} ELSE @)
                        \cup {<<ctx, k, prec>>}]
     /\ rccalls' = rccalls + 1
     /\ UNCHANGED notRc

fp_pow_rc(ctx, k, prec) ==
  /\ rccalls < MaxRcCalls
  /\ RcReturned("fp_pow_rc", ctx, k, prec)

cpx_pow_rc(ctx, k, prec) ==
  /\ rccalls < MaxRcCalls
  /\ RcReturned("cpx_pow_rc", ctx, k, prec)

NextRc ==
  \/ \E ctx \in Contexts, k \in RcKs, prec \in RcPrecs : fp_pow_rc(ctx, k, prec)
  \/ \E ctx \in Contexts, k \in RcKs, prec \in RcPrecs : cpx_pow_rc(ctx, k, prec)

(***************************************************************************)
(* cpx_multiplicative_cached: a completely multiplicative function built   *)
(* from its values on the primes, which are kept in primca.                *)
(***************************************************************************)
MulArgs == 0..MaxMulN
MulPrecs == 1..MaxMulPrec

\* test_func: f(p) = p
test_func(p) == p

MulState(cc, cnt, ask) == [c |-> cc, cnt |-> cnt, ask |-> ask]
MulOut(st, val) == [st |-> st, val |-> val]

\* The nested function of cpx_multiplicative_cached that never stores.
wrapper_NoStore(st, nn, pr) ==
  LET chk == RcCheck(st.c, nn)
      ask == [st.ask EXCEPT ![nn] = @ + 1]
  IN IF chk.p # 0
     THEN MulOut(MulState(chk.c, st.cnt, ask), SlotAt(chk.c, nn).v)
     ELSE MulOut(MulState(chk.c, [st.cnt EXCEPT ![nn] = @ + 1], ask),
                 test_func(nn))

\* The nested function of cpx_multiplicative_cached.
wrapper(st, nn, pr) ==
  LET chk == RcCheck(st.c, nn)
      ask == [st.ask EXCEPT ![nn] = @ + 1]
  IN IF chk.p # 0
     THEN MulOut(MulState(chk.c, st.cnt, ask), SlotAt(chk.c, nn).v)
     ELSE MulOut(MulState(RcStore(chk.c, nn, test_func(nn), pr),
                          [st.cnt EXCEPT ![nn] = @ + 1], ask),
                 test_func(nn))

RECURSIVE plicplic(_, _, _, _)
RECURSIVE cpx_multiplicative(_, _, _)

plicplic(st, m, n, nprec) ==
  IF n + 1 = m THEN wrapper(st, m, nprec)
  ELSE IF m % n # 0 THEN plicplic(st, m, n + 1, nprec)
  ELSE LET fq == cpx_multiplicative(st, m \div n, nprec)
           fn == cpx_multiplicative(fq.st, n, nprec)
       IN MulOut(fn.st, fq.val * fn.val)

cpx_multiplicative(st, n, nprec) ==
  IF n <= 3 THEN wrapper(st, n, nprec) ELSE plicplic(st, n, 2, nprec)

NoMulCall == [fn |-> "none", n |-> 0, nprec |-> 0]

IdleMu ==
  /\ primca = [nmax |-> 0, mem |-> <<>>]
  /\ mres = 0
  /\ mcall = NoMulCall
  /\ fcount = [p \in MulArgs |-> 0]
  /\ fasked = [p \in MulArgs |-> 0]
  /\ mcalls = 0

cpx_multiplicative_cached(n, nprec) ==
  /\ mcalls < MaxMulCalls
  /\ LET r == cpx_multiplicative(MulState(primca, fcount, fasked), n, nprec)
     IN /\ primca' = r.st.c
        /\ fcount' = r.st.cnt
        /\ fasked' = r.st.ask
        /\ mres' = r.val
  /\ mcall' = [fn |-> "cpx_multiplicative_cached", n |-> n, nprec |-> nprec]
  /\ mcalls' = mcalls + 1
  /\ UNCHANGED notMu

cpx_multiplicative_clear_cache ==
  /\ mcalls < MaxMulCalls
  /\ primca' = ClearMem(primca)
  /\ fcount' = [p \in MulArgs |-> 0]
  /\ fasked' = [p \in MulArgs |-> 0]
  /\ mcall' = [fn |-> "cpx_multiplicative_clear_cache", n |-> 0, nprec |-> 0]
  /\ mcalls' = mcalls + 1
  /\ UNCHANGED mres
  /\ UNCHANGED notMu

NextMu ==
  \/ \E n \in MulArgs, nprec \in MulPrecs : cpx_multiplicative_cached(n, nprec)
  \/ cpx_multiplicative_clear_cache

IsPrime(p) == p >= 2 /\ \A d \in 2..(p - 1) : p % d # 0

(***************************************************************************)
(* cpx_find_zero: the conic-section zero finder.  Complex numbers are      *)
(* exact Gaussian rationals (r + i*im) / d in lowest terms.                *)
(***************************************************************************)
GQ(r, im, d) == [r |-> r, i |-> im, d |-> d]

GNorm(r, im, d) ==
  LET g == Gcd(Gcd(Abs(r), Abs(im)), Abs(d))
      sg == IF d < 0 THEN -g ELSE g
  IN GQ(r \div sg, im \div sg, d \div sg)

gq_add(a, b) == GNorm(a.r * b.d + b.r * a.d, a.i * b.d + b.i * a.d, a.d * b.d)
gq_neg(a) == GQ(-a.r, -a.i, a.d)
gq_sub(a, b) == gq_add(a, gq_neg(b))
gq_mul(a, b) == GNorm(a.r * b.r - a.i * b.i, a.r * b.i + a.i * b.r, a.d * b.d)

\* cpx_recip: conj(b) / |b|^2
gq_recip(b) == GNorm(b.r * b.d, -b.i * b.d, b.r * b.r + b.i * b.i)
gq_div(a, b) == gq_mul(a, gq_recip(b))
GqIsZero(a) == a.r = 0 /\ a.i = 0

\* mpf_cmp of cpx_abs(a) with cpx_abs(b): -1, 0 or 1
GqAbsCmp(a, b) ==
  LET x == (a.r * a.r + a.i * a.i) * b.d * b.d
      y == (b.r * b.r + b.i * b.i) * a.d * a.d
  IN IF x < y THEN -1 ELSE IF x = y THEN 0 ELSE 1

\* 0 > mpf_cmp(|a|, epsi) with epsi = 1/e
GqBelow(a, e) == (a.r * a.r + a.i * a.i) * e * e < a.d * a.d

IterLimit == 100
ZfOne == GQ(1, 0, 1)
ZfUnset == GQ(0, 0, 0)

\* The functions handed to cpx_find_zero: z - 1, z^2 - 1, z^2 + 1.
ZfFuncs == {"lin", "sq", "sqi"}
func(fn, z) ==
  IF fn = "lin" THEN gq_sub(z, ZfOne)
  ELSE IF fn = "sq" THEN gq_sub(gq_mul(z, z), ZfOne)
  ELSE gq_add(gq_mul(z, z), ZfOne)

ZfStarts == {GQ(0, 0, 1), GQ(-1, 0, 1)}
ZfAxes == {GQ(1, 0, 1), GQ(0, 1, 1), GQ(-1, 0, 1), GQ(1, 1, 1)}
ZfDigits == {1, 2}
Epsi(ndigits) == Pow(2, (3322 * ndigits) \div 1000)

ZfPt(s, y) == [s |-> s, y |-> y]
Swap(p, a, b) == [p EXCEPT ![a] = p[b], ![b] = p[a]]

\* "Place into sorted order": three compare-and-swap steps on f0, f1, f2.
Sort3(p) ==
  LET p1 == IF GqAbsCmp(p[1].y, p[2].y) > 0 THEN Swap(p, 1, 2) ELSE p
      p2 == IF GqAbsCmp(p1[1].y, p1[3].y) > 0 THEN Swap(p1, 1, 3) ELSE p1
  IN IF GqAbsCmp(p2[2].y, p2[3].y) > 0 THEN Swap(p2, 2, 3) ELSE p2

\* The divisor conic picks: fb - fa on the longer arm zb - za, else fc - fa.
ConicArm(p) ==
  LET zba == gq_sub(p[2].s, p[1].s)
      zca == gq_sub(p[3].s, p[1].s)
  IN IF GqAbsCmp(zba, zca) > 0
     THEN [z |-> zba, df |-> gq_sub(p[2].y, p[1].y)]
     ELSE [z |-> zca, df |-> gq_sub(p[3].y, p[1].y)]

\* conic (s3, s0, s1, s2, y0, y1, y2): za - fa * z / df
conic(p) == gq_sub(p[1].s, gq_mul(gq_div(ConicArm(p).z, ConicArm(p).df), p[1].y))

NoProp == [made |-> FALSE, s |-> ZfUnset, cmp |-> 0, accepted |-> FALSE]

IdleZf ==
  /\ zfunc = "lin" /\ zeps = 1
  /\ zpts = <<ZfPt(ZfUnset, ZfUnset), ZfPt(ZfUnset, ZfUnset), ZfPt(ZfUnset, ZfUnset)>>
  /\ zi = 0 /\ zpc = "idle" /\ zrc = 1 /\ zresult = ZfUnset
  /\ zprop = NoProp

\* cpx_find_zero up to the loop: the three initial points, sorted.
FindZeroEnter(fn, initial_z, e1, e2, ndigits) ==
  /\ zpc = "idle"
  /\ e1 # e2
  /\ zfunc' = fn /\ zeps' = Epsi(ndigits)
  /\ zpts' = Sort3(<<ZfPt(initial_z, func(fn, initial_z)),
                     ZfPt(gq_add(initial_z, e1), func(fn, gq_add(initial_z, e1))),
                     ZfPt(gq_add(initial_z, e2), func(fn, gq_add(initial_z, e2)))>>)
  /\ zi' = 0 /\ zpc' = "loop" /\ zrc' = 1
  /\ UNCHANGED <<zresult, zprop>>
  /\ UNCHANGED notZf

\* One pass through the loop body.
FindZeroIterate ==
  /\ zpc = "loop" /\ zi < IterLimit
  /\ IF GqBelow(gq_sub(zpts[2].s, zpts[1].s), zeps)
     THEN /\ zrc' = 0 /\ zresult' = zpts[1].s /\ zpc' = "done"
          /\ UNCHANGED <<zpts, zi, zprop>>
     ELSE IF GqIsZero(ConicArm(zpts).df)
     THEN /\ zpc' = "fpe"
          /\ UNCHANGED <<zpts, zi, zrc, zresult, zprop>>
     ELSE LET s3 == conic(zpts)
              y3 == func(zfunc, s3)
              cmp == GqAbsCmp(y3, zpts[3].y)
          IN IF cmp > 0
             THEN /\ zresult' = zpts[1].s /\ zrc' = 1 /\ zpc' = "done"
                  /\ zprop' = [made |-> TRUE, s |-> s3, cmp |-> cmp, accepted |-> FALSE]
                  /\ UNCHANGED <<zpts, zi>>
             ELSE /\ zpts' = Sort3([zpts EXCEPT ![3] = ZfPt(s3, y3)])
                  /\ zi' = zi + 1
                  /\ zprop' = [made |-> TRUE, s |-> s3, cmp |-> cmp, accepted |-> TRUE]
                  /\ UNCHANGED <<zrc, zresult, zpc>>
  /\ UNCHANGED <<zfunc, zeps>>
  /\ UNCHANGED notZf

\* The loop runs out: the function returns the rc it started with.
FindZeroExhausted ==
  /\ zpc = "loop" /\ zi = IterLimit
  /\ zpc' = "done"
  /\ UNCHANGED <<zfunc, zeps, zpts, zi, zrc, zresult, zprop>>
  /\ UNCHANGED notZf

NextZf ==
  \/ \E fn \in ZfFuncs, z \in ZfStarts, e1 \in ZfAxes, e2 \in ZfAxes, nd \in ZfDigits :
        FindZeroEnter(fn, z, e1, e2, nd)
  \/ FindZeroIterate
  \/ FindZeroExhausted

(***************************************************************************)
(* cpx_mpf_pow: kq^s for a real base kq and a complex exponent s, through  *)
(* fp_log.  Bases are dyadic fractions n/d, which mpf_t holds exactly.     *)
(***************************************************************************)
Frac(n, d) == [n |-> n, d |-> d]
MpfBases == {Frac(-2, 1), Frac(-1, 2), Frac(0, 1), Frac(1, 4), Frac(1, 1),
             Frac(3, 2), Frac(2, 1), Frac(8, 1)}
MpfExps == {1, 2}

\* mpf_cmp_ui (x, k): the sign of x - k
mpf_cmp_ui(x, k) == IF x.n < k * x.d THEN -1 ELSE IF x.n = k * x.d THEN 0 ELSE 1
mpf_div_2(x) == IF x.n % 2 = 0 THEN Frac(x.n \div 2, x.d) ELSE Frac(x.n, 2 * x.d)
mpf_mul_2(x) == IF x.d % 2 = 0 THEN Frac(x.n, x.d \div 2) ELSE Frac(2 * x.n, x.d)

DomainError == "cpx_mpf_pow() domain error, q<0\n"
NoPowc == [kq |-> Frac(0, 0), ess |-> 0, nexp |-> 0, zee |-> Frac(0, 0)]

IdleMp ==
  /\ wpc = "idle" /\ wkq = Frac(1, 1) /\ wess = 1 /\ wzee = Frac(1, 1)
  /\ wnexp = 0 /\ werr = "" /\ wpowc = NoPowc /\ wwritten = FALSE /\ wcalls = 0

\* cpx_mpf_pow up to the call of fp_log: the domain check.
cpx_mpf_pow(kq, ess) ==
  /\ wpc = "idle" /\ wcalls < MaxMpfPowCalls
  /\ wkq' = kq /\ wess' = ess /\ wwritten' = FALSE /\ wcalls' = wcalls + 1
  /\ IF mpf_cmp_ui(kq, 0) < 0
     THEN /\ werr' = DomainError /\ wpc' = "done"
          /\ UNCHANGED <<wzee, wnexp>>
     ELSE /\ werr' = "" /\ wpc' = "fp_log"
          /\ wzee' = kq /\ wnexp' = 0
  /\ UNCHANGED wpowc
  /\ UNCHANGED notMp

\* while (mpf_cmp_ui(zee, 2) > 0) { nexp ++; mpf_div_ui (zee, zee, 2); }
fp_log_halve ==
  /\ wpc = "fp_log" /\ mpf_cmp_ui(wzee, 2) > 0 /\ wnexp < MaxShift
  /\ wnexp' = wnexp + 1 /\ wzee' = mpf_div_2(wzee)
  /\ UNCHANGED <<wpc, wkq, wess, werr, wpowc, wwritten, wcalls>>
  /\ UNCHANGED notMp

\* while (mpf_cmp_ui(zee, 1) < 0) { nexp --; mpf_mul_ui (zee, zee, 2); }
fp_log_double ==
  /\ wpc = "fp_log" /\ mpf_cmp_ui(wzee, 2) <= 0 /\ mpf_cmp_ui(wzee, 1) < 0
  /\ wnexp > -MaxShift
  /\ wnexp' = wnexp - 1 /\ wzee' = mpf_mul_2(wzee)
  /\ UNCHANGED <<wpc, wkq, wess, werr, wpowc, wwritten, wcalls>>
  /\ UNCHANGED notMp

\* The rest of fp_log and of cpx_mpf_pow: log kq = log zee + nexp log 2,
\* then magnitude and phase into powc.
cpx_mpf_pow_finish ==
  /\ wpc = "fp_log" /\ mpf_cmp_ui(wzee, 2) <= 0 /\ mpf_cmp_ui(wzee, 1) >= 0
  /\ wpowc' = [kq |-> wkq, ess |-> wess, nexp |-> wnexp, zee |-> wzee]
  /\ wwritten' = TRUE /\ wpc' = "done"
  /\ UNCHANGED <<wkq, wess, wzee, wnexp, werr, wcalls>>
  /\ UNCHANGED notMp

\* The caller goes on.
cpx_mpf_pow_return ==
  /\ wpc = "done"
  /\ wpc' = "idle"
  /\ UNCHANGED <<wkq, wess, wzee, wnexp, werr, wpowc, wwritten, wcalls>>
  /\ UNCHANGED notMp

NextMp ==
  \/ \E kq \in MpfBases, ess \in MpfExps : cpx_mpf_pow(kq, ess)
  \/ fp_log_halve
  \/ fp_log_double
  \/ cpx_mpf_pow_finish
  \/ cpx_mpf_pow_return

(***************************************************************************)
(* db-prt: the coverage report of a cache file.                            *)
(***************************************************************************)
PrtIdx == 0..MaxPrtIdx

\* fp_cache_get (db, val, n, 10)
PrtWant == 10

\* Precisions a record of the file may carry; -1: no record at the index.
PrtStored == {-1, 5, 10, 20}
\* A file that does not exist holds no record.
PrtFiles ==
  {f \in [exists : BOOLEAN, prec : [PrtIdx -> PrtStored]] :
      f.exists \/ \A i \in PrtIdx : f.prec[i] = -1}

\* What fp_cache_get returns on such a file.
CacheGet(file, idx, nprec) ==
  IF ~file.exists THEN 0
  ELSE IF file.prec[idx] = -1 THEN 0
  ELSE IF ~EnoughPrec(nprec, file.prec[idx]) THEN 0
  ELSE file.prec[idx]

\* "range lo : hi is missing" and "range lo : hi is to precision p"
RangeMissing(lo, hi) == [lo |-> lo, hi |-> hi, missing |-> TRUE, prec |-> 0]
RangePrec(lo, hi, p) == [lo |-> lo, hi |-> hi, missing |-> FALSE, prec |-> p]

\* The line printed when a range ends, and after the loop.
PrtLine(lastn, hi, lastprec) ==
  IF lastn # 0 THEN RangePrec(lastn, hi, lastprec) ELSE RangeMissing(lastn, hi)

RECURSIVE PrtLoop(_, _, _, _, _, _)
\* for (n=from; n<= maxidx; n++) {...} and the lines after it
PrtLoop(file, n, maxidx, lastprec, lastn, lines) ==
  IF n <= maxidx
  THEN LET prec == CacheGet(file, n, PrtWant)
       IN IF prec # lastprec
          THEN PrtLoop(file, n + 1, maxidx, prec, n,
                       IF lastprec # -1
                       THEN Append(lines, PrtLine(lastn, n - 1, lastprec))
                       ELSE lines)
          ELSE PrtLoop(file, n + 1, maxidx, lastprec, lastn, lines)
  ELSE IF lastprec # -1 /\ lastn # 0
       THEN Append(lines, RangePrec(lastn, n - 1, lastprec))
       ELSE Append(lines, RangeMissing(lastn, n - 1))

NoPrtCall == [made |-> FALSE, from |-> 0, to |-> 0]

IdlePr ==
  /\ prfile = [exists |-> FALSE, prec |-> [i \in PrtIdx |-> -1]]
  /\ prcall = NoPrtCall /\ prout = <<>> /\ prcalls = 0

InitPr ==
  /\ prfile \in PrtFiles
  /\ prcall = NoPrtCall /\ prout = <<>> /\ prcalls = 0

\* main (argc, argv) of db-prt with argv = <db> <from> <to>
db_prt(from, maxidx) ==
  /\ prcalls < MaxPrtCalls
  /\ prcall' = [made |-> TRUE, from |-> from, to |-> maxidx]
  /\ prout' = PrtLoop(prfile, from, maxidx, -1, 0, <<>>)
  /\ prcalls' = prcalls + 1
  /\ UNCHANGED prfile
  /\ UNCHANGED notPr

NextPr == \E from \in PrtIdx, maxidx \in PrtIdx : db_prt(from, maxidx)

\* The maximal runs of equal cached precision within from..to.
MaximalRuns(file, from, to) ==
  {RangePrec(lo, hi, CacheGet(file, lo, PrtWant)) : lo \in from..to, hi \in from..to} \cap
  {l \in [lo : from..to, hi : from..to, missing : {FALSE}, prec : PrtStored \cup {0}] :
     /\ l.lo <= l.hi
     /\ \A i \in l.lo..l.hi : CacheGet(file, i, PrtWant) = l.prec
     /\ l.lo = from \/ CacheGet(file, l.lo - 1, PrtWant) # l.prec
     /\ l.hi = to \/ CacheGet(file, l.hi + 1, PrtWant) # l.prec}

\* The report the runs call for: uncached runs are the missing ones.
ExpectedReport(file, from, to) ==
  {IF l.prec = 0 THEN RangeMissing(l.lo, l.hi) ELSE l : l \in MaximalRuns(file, from, to)}

(***************************************************************************)
(* The constants of mp-consts.c.  Every function keeps a static value and   *)
(* a static precision, takes one of four spinlocks on entry, returns the   *)
(* cached value when the cached precision suffices, and otherwise          *)
(* recomputes, stores and releases the lock.  A recomputation may call     *)
(* other constants, directly or through fp_exp, fp_log, fp_sine and        *)
(* fp_cosine, while the lock is held.                                      *)
(***************************************************************************)
ConstThreads == 1..NConstThreads
ConstPrecs == 1..MaxConstPrec

ConstFns ==
  {"fp_half_sqrt_three", "fp_e", "fp_pi", "fp_two_pi", "fp_two_over_pi",
   "fp_pi_half", "fp_sqrt_two_pi", "fp_log_two_pi", "fp_log2", "fp_e_pi",
   "fp_euler_mascheroni", "fp_zeta_half"}

ConstLocks == {"mp_const_lock", "mp_pi_lock", "mp_euler_lock", "mp_zeta_lock"}

\* The lock each function takes on entry.
ConstLock(cf) ==
  CASE cf = "fp_pi" -> "mp_pi_lock"
    [] cf = "fp_euler_mascheroni" -> "mp_euler_lock"
    [] cf = "fp_zeta_half" -> "mp_zeta_lock"
    [] OTHER -> "mp_const_lock"

\* The constant functions a recomputation enters, in order.  fp_log of a
\* value above 2 enters fp_log2; fp_exp of a value with a non-zero integer
\* part enters fp_e; fp_sine and fp_cosine enter fp_pi_half.
ConstCallees(cf) ==
  CASE cf \in {"fp_two_pi", "fp_two_over_pi", "fp_pi_half"} -> <<"fp_pi">>
    [] cf = "fp_sqrt_two_pi" -> <<"fp_two_pi">>
    [] cf = "fp_log_two_pi" -> <<"fp_two_pi", "fp_log2">>
    [] cf = "fp_e_pi" -> <<"fp_pi", "fp_e">>
    [] cf = "fp_euler_mascheroni" -> <<"fp_e", "fp_log2">>
    [] cf = "fp_zeta_half" -> <<"fp_log2", "fp_e", "fp_pi_half">>
    [] OTHER -> <<>>

ConstFrame(cf, prec) == [fn |-> cf, prec |-> prec, next |-> 1]

\* The innermost function thread t is inside.
ConstTop(t) == kstack[t][Len(kstack[t])]
ConstPop(t) == [kstack EXCEPT ![t] = SubSeq(kstack[t], 1, Len(kstack[t]) - 1)]

\* pthread_spin_lock: returns once the lock is free, whoever holds it (the
\* lock is not recursive: a thread that holds it already spins for ever).
pthread_spin_lock_NoWait(l, t) ==
  mp_lock' = [mp_lock EXCEPT ![l] = t]

pthread_spin_lock(l, t) ==
  /\ mp_lock[l] = 0
  /\ mp_lock' = [mp_lock EXCEPT ![l] = t]

pthread_spin_unlock(l) ==
  mp_lock' = [mp_lock EXCEPT ![l] = 0]

IdleKc ==
  /\ mp_lock = [l \in ConstLocks |-> 0]
  /\ cprec = [cf \in ConstFns |-> 0]
  /\ kstack = [t \in ConstThreads |-> <<>>]
  /\ kcalls = 0

\* A thread that is in no constant function calls one and gets past the
\* pthread_spin_lock at its head.  Threads are numbered in the order of
\* their first calls.
ConstCall(t, cf, prec) ==
  /\ kstack[t] = <<>>
  /\ kcalls < MaxConstCalls
  /\ t <= kcalls + 1
  /\ pthread_spin_lock(ConstLock(cf), t)
  /\ kstack' = [kstack EXCEPT ![t] = <<ConstFrame(cf, prec)>>]
  /\ kcalls' = kcalls + 1
  /\ UNCHANGED cprec
  /\ UNCHANGED notKc

\* if (precision >= prec) { mpf_set (out, cached); unlock; return; }
ConstHit(t) ==
  /\ kstack[t] # <<>>
  /\ cprec[ConstTop(t).fn] >= ConstTop(t).prec
  /\ pthread_spin_unlock(ConstLock(ConstTop(t).fn))
  /\ kstack' = ConstPop(t)
  /\ UNCHANGED <<cprec, kcalls>>
  /\ UNCHANGED notKc

\* The cached precision is too small, and the recomputation enters the next
\* constant it needs, at the same prec, past the lock at that one's head.
ConstNested(t) ==
  /\ kstack[t] # <<>>
  /\ cprec[ConstTop(t).fn] < ConstTop(t).prec
  /\ ConstTop(t).next <= Len(ConstCallees(ConstTop(t).fn))
  /\ pthread_spin_lock(ConstLock(ConstCallees(ConstTop(t).fn)[ConstTop(t).next]), t)
  /\ kstack' = [kstack EXCEPT ![t] =
       Append(SubSeq(kstack[t], 1, Len(kstack[t]) - 1),
              [ConstTop(t) EXCEPT !.next = @ + 1])
       \o <<ConstFrame(ConstCallees(ConstTop(t).fn)[ConstTop(t).next],
                       ConstTop(t).prec)>>]
  /\ UNCHANGED <<cprec, kcalls>>
  /\ UNCHANGED notKc

\* The recomputation is over: mpf_set (cached, out); precision = prec;
\* unlock.
ConstStore(t) ==
  /\ kstack[t] # <<>>
  /\ cprec[ConstTop(t).fn] < ConstTop(t).prec
  /\ ConstTop(t).next > Len(ConstCallees(ConstTop(t).fn))
  /\ cprec' = [cprec EXCEPT ![ConstTop(t).fn] = ConstTop(t).prec]
  /\ pthread_spin_unlock(ConstLock(ConstTop(t).fn))
  /\ kstack' = ConstPop(t)
  /\ UNCHANGED kcalls
  /\ UNCHANGED notKc

NextKc ==
  \/ \E t \in ConstThreads, cf \in ConstFns, prec \in ConstPrecs :
       ConstCall(t, cf, prec)
  \/ \E t \in ConstThreads : ConstHit(t)
  \/ \E t \in ConstThreads : ConstNested(t)
  \/ \E t \in ConstThreads : ConstStore(t)

(***************************************************************************)
(* db-merge.c: main (argc, argv) merges two cache files into a third, for  *)
(* the indices from..too, keeping for each index the value stored with the *)
(* higher precision.                                                       *)
(***************************************************************************)
MergeIdx == 0..MaxMergeIdx
\* The file names a, b and o, like every argument, as their characters
MergeNames == {<<"a">>, <<"b">>, <<"o">>}
MergeWant == 10
MergeStored == {-1, 5, 10, 20}

\* Decimal arguments as the characters of the string
Digits == <<"0", "1", "2", "3", "4", "5", "6", "7", "8", "9">>
IsDigit(ch) == \E d \in 1..10 : Digits[d] = ch
DigitVal(ch) == (CHOOSE d \in 1..10 : Digits[d] = ch) - 1
Numerals == {<<Digits[n + 1]>> : n \in MergeIdx} \cup {<<"x">>, <<"0", "1">>, <<"1", "x">>}

\* atoi: the value of the leading digits, 0 when there are none
RECURSIVE AtoiFrom(_, _, _)
AtoiFrom(s, i, sofar) ==
  IF i > Len(s) \/ ~IsDigit(s[i]) THEN sofar
  ELSE AtoiFrom(s, i + 1, sofar * 10 + DigitVal(s[i]))
atoi(s) == AtoiFrom(s, 1, 0)

\* The command lines: up to MaxMergeArgs arguments after the program name
MergeArgAt(i) == IF i <= 3 THEN MergeNames ELSE IF i <= 5 THEN Numerals ELSE {<<"9">>}
MergeArgLists ==
  UNION {{a \in [1..k -> MergeNames \cup Numerals \cup {<<"9">>}] :
             \A i \in 1..k : a[i] \in MergeArgAt(i)} : k \in 0..MaxMergeArgs}
argc == Len(gargv) + 1

NoMergeFile == [exists |-> FALSE, prec |-> [i \in MergeIdx |-> -1], val |-> [i \in MergeIdx |-> ""]]
MergeFileA ==
  [exists |-> TRUE,
   prec |-> [i \in MergeIdx |-> IF i = 0 THEN 20 ELSE IF i = 1 THEN 10 ELSE 5],
   val |-> [i \in MergeIdx |-> "a"]]
MergeFileB ==
  [exists |-> TRUE,
   prec |-> [i \in MergeIdx |-> IF i = 0 THEN 10 ELSE IF i = 1 THEN 10 ELSE -1],
   val |-> [i \in MergeIdx |-> IF i <= 1 THEN "b" ELSE ""]]

IdleMg ==
  /\ gargv = <<>>
  /\ gfile = [name \in MergeNames |-> NoMergeFile]
  /\ gpc = "shell" /\ gfrom = 0 /\ gtoo = 0 /\ gn = 0 /\ gexit = -1
  /\ gusage = FALSE /\ gread = {} /\ gruns = 0

InitMg ==
  /\ gargv = <<>>
  /\ gfile \in {[name \in MergeNames |->
                   IF name = <<"a">> THEN MergeFileA
                   ELSE IF name = <<"b">> THEN MergeFileB ELSE o] :
                o \in {NoMergeFile, MergeFileB}}
  /\ gpc = "shell" /\ gfrom = 0 /\ gtoo = 0 /\ gn = 0 /\ gexit = -1
  /\ gusage = FALSE /\ gread = {} /\ gruns = 0

\* The shell may start the program
MergeStartable == gpc \in {"shell", "exit", "segv"} /\ gruns < MaxMergeRuns

\* argc < 5: the usage message and exit (1)
MergeUsage(args) ==
  /\ MergeStartable
  /\ Len(args) + 1 < 5
  /\ gargv' = args /\ gruns' = gruns + 1
  /\ gusage' = TRUE /\ gexit' = 1 /\ gpc' = "exit"
  /\ gread' = {0}
  /\ UNCHANGED <<gfile, gfrom, gtoo, gn>>
  /\ UNCHANGED notMg

\* argc = 5: argv[5] is the null pointer that ends argv, and atoi of it is
\* undefined: the process dies of a segmentation fault in strtol, or atoi
\* returns some number
MergeNullArg(args) ==
  /\ MergeStartable
  /\ Len(args) + 1 = 5
  /\ gargv' = args /\ gruns' = gruns + 1
  /\ gusage' = FALSE
  /\ gread' = 1..5
  /\ gfrom' = atoi(args[4])
  /\ \/ /\ gpc' = "segv" /\ gexit' = 139
        /\ UNCHANGED <<gtoo, gn>>
     \/ /\ gpc' = "loop" /\ gexit' = -1
        /\ gtoo' \in MergeIdx
        /\ gn' = gfrom'
  /\ UNCHANGED gfile
  /\ UNCHANGED notMg

\* argc > 5: the five arguments are read and the loop starts
MergeMain(args) ==
  /\ MergeStartable
  /\ Len(args) + 1 > 5
  /\ gargv' = args /\ gruns' = gruns + 1
  /\ gusage' = FALSE /\ gexit' = -1 /\ gpc' = "loop"
  /\ gread' = 1..5
  /\ gfrom' = atoi(args[4])
  /\ gtoo' = atoi(args[5])
  /\ gn' = gfrom'
  /\ UNCHANGED gfile
  /\ UNCHANGED notMg

\* fp_cache_put (dbout, val, n, prec) as the merge uses it
MergePut(files, dbout, idx, prec, val) ==
  [files EXCEPT ![dbout] =
     [exists |-> TRUE,
      prec |-> [@.prec EXCEPT ![idx] = prec],
      val |-> [@.val EXCEPT ![idx] = val]]]

\* One pass of the loop body, for n <= too
MergeStep ==
  /\ gpc = "loop" /\ gn <= gtoo
  /\ LET dbout == gargv[1]
         dbina == gargv[2]
         dbinb == gargv[3]
         inrange == gn \in MergeIdx
         preca == IF inrange THEN CacheGet(gfile[dbina], gn, MergeWant) ELSE 0
         precb == IF inrange THEN CacheGet(gfile[dbinb], gn, MergeWant) ELSE 0
     IN gfile' =
          IF 0 >= preca /\ 0 >= precb THEN gfile
          ELSE IF precb < preca
          THEN IF dbina # dbout
               THEN MergePut(gfile, dbout, gn, preca, gfile[dbina].val[gn])
               ELSE gfile
          ELSE IF dbinb # dbout
               THEN MergePut(gfile, dbout, gn, precb, gfile[dbinb].val[gn])
               ELSE gfile
  /\ gn' = gn + 1
  /\ UNCHANGED <<gargv, gpc, gfrom, gtoo, gexit, gusage, gread, gruns>>
  /\ UNCHANGED notMg

\* n > too: return 0
MergeReturn ==
  /\ gpc = "loop" /\ gn > gtoo
  /\ gpc' = "exit" /\ gexit' = 0
  /\ UNCHANGED <<gargv, gfile, gfrom, gtoo, gn, gusage, gread, gruns>>
  /\ UNCHANGED notMg

NextMg ==
  \/ \E args \in MergeArgLists : MergeUsage(args)
  \/ \E args \in MergeArgLists : MergeNullArg(args)
  \/ \E args \in MergeArgLists : MergeMain(args)
  \/ MergeStep
  \/ MergeReturn

(***************************************************************************)
(* fp_zeta_brute (mp-zeta.c): zeta(s) by direct summation of 1/n^s, with a *)
(* static cache line per s holding the running sum, the index of the next  *)
(* term and a precision.  A sum is represented by the runs of terms that   *)
(* were added to 1: <<[lo, hi]>> stands for 1 + sum of 1/n^s, lo <= n < hi. *)
(***************************************************************************)
BruteS == 0..MaxBruteS
BrutePrecs == 1..MaxBrutePrec
BruteSlots == 0..((3 * MaxBruteS) \div 2 + 19)

Untouched == [set |-> FALSE, ivs |-> <<>>]
SumOne == [set |-> TRUE, ivs |-> <<>>]

\* The loop for (n=nstart; n<nmax; n++) adding 1/n^s to the sum v
SumTerms(v, nstart, nmax) ==
  IF nstart >= nmax THEN [v EXCEPT !.set = TRUE]
  ELSE IF v.ivs # <<>> /\ v.ivs[Len(v.ivs)].hi = nstart
  THEN [set |-> TRUE, ivs |-> [v.ivs EXCEPT ![Len(v.ivs)].hi = nmax]]
  ELSE [set |-> TRUE, ivs |-> Append(v.ivs, [lo |-> nstart, hi |-> nmax])]

\* m^q <= x, without forming m^q
RECURSIVE RootLeq(_, _, _)
RootLeq(m, x, q) == IF q = 1 THEN m <= x ELSE RootLeq(m, x \div m, q - 1)

\* The largest m with m^q <= x, between lo (lo^q <= x) and hi (hi^q > x)
RECURSIVE RootSearch(_, _, _, _)
RootSearch(x, q, lo, hi) ==
  IF hi - lo <= 1 THEN lo
  ELSE LET mid == (lo + hi) \div 2
       IN IF RootLeq(mid, x, q) THEN RootSearch(x, q, mid, hi)
          ELSE RootSearch(x, q, lo, mid)

\* fnmax = pow (10.0, prec / (s-1)): the test 1.0e9 < fnmax, and its
\* integer part
TooManyTerms(s, prec) == prec > 9 * (s - 1)
FloorFnmax(s, prec) ==
  IF prec % (s - 1) = 0 THEN Pow(10, prec \div (s - 1))
  ELSE RootSearch(Pow(10, prec), s - 1, 1, Pow(10, prec))
BruteNmax(s, prec) == FloorFnmax(s, prec) + 3

IdleZb ==
  /\ cache_size = 0
  /\ zeta_cache = [i \in BruteSlots |-> Untouched]
  /\ zprec = [i \in BruteSlots |-> 0]
  /\ last_term = [i \in BruteSlots |-> 0]
  /\ zbzeta = Untouched
  /\ zbcall = [s |-> 0, prec |-> 0]
  /\ zbhow = "none"
  /\ zbcalls = 0

\* The cache after the growth at the head of the function
BruteGrown(s) == IF s >= cache_size THEN (3 * s) \div 2 + 20 ELSE cache_size

fp_zeta_brute(s, prec) ==
  /\ zbcalls < MaxBruteCalls
  /\ zbcalls' = zbcalls + 1
  /\ zbcall' = [s |-> s, prec |-> prec]
  /\ cache_size' = BruteGrown(s)
  /\ IF s < 2
     THEN /\ zbhow' = "low"
          /\ UNCHANGED <<zeta_cache, zprec, last_term, zbzeta>>
     ELSE IF prec < zprec[s]
     THEN /\ zbhow' = "hit"
          /\ zbzeta' = zeta_cache[s]
          /\ UNCHANGED <<zeta_cache, zprec, last_term>>
     ELSE LET fresh == zprec[s] = 0
              line == IF fresh THEN SumOne ELSE zeta_cache[s]
              nstart == IF fresh THEN 2 ELSE last_term[s]
          IN /\ zprec' = IF fresh THEN [zprec EXCEPT ![s] = prec] ELSE zprec
             /\ IF TooManyTerms(s, prec)
                THEN /\ zbhow' = "refused"
                     /\ zbzeta' = SumOne
                     /\ zeta_cache' = [zeta_cache EXCEPT ![s] = line]
                     /\ last_term' = [last_term EXCEPT ![s] = nstart]
                ELSE /\ zbhow' = "summed"
                     /\ zbzeta' = SumTerms(line, nstart, BruteNmax(s, prec))
                     /\ zeta_cache' = [zeta_cache EXCEPT ![s] = zbzeta']
                     /\ last_term' = [last_term EXCEPT ![s] = BruteNmax(s, prec)]
  /\ UNCHANGED notZb

NextZb == \E s \in BruteS, prec \in BrutePrecs : fp_zeta_brute(s, prec)

(***************************************************************************)
(* fp_zeta (mp-zeta.c): zeta(s) for an integer s, looked up in the static  *)
(* memory cache, then in the disk cache db-zeta.db, which holds zeta(s)-1, *)
(* and only then computed.  Values are kept to ZetaDigits decimal places:  *)
(* the integer v stands for v / 10^ZetaDigits.                             *)
(***************************************************************************)
ZetaS == 0..MaxZetaS
ZetaPrecs == 1..MaxZetaPrec
ZetaOne == Pow(10, ZetaDigits)

\* zeta(s) to six places, and as the evaluation algorithms deliver it
ZetaMicro(s) ==
  CASE s = 2 -> 1644934 [] s = 3 -> 1202057 [] s = 4 -> 1082323
    [] s = 5 -> 1036928 [] OTHER -> 1000000 + 1000000 \div Pow(2, s)
ZetaValue(s) == ZetaMicro(s) \div Pow(10, 6 - ZetaDigits)

\* Which algorithm a miss in both caches runs
ZetaAlgorithm(s, prec) ==
  IF \/ (s % 2 = 1 /\ 10 * prec < 33 * (s - 1) /\ s > 20)
     \/ (s % 2 = 0 /\ 10 * prec < 18 * (s - 1) /\ s > 20)
  THEN "fp_zeta_brute"
  ELSE IF s % 2 = 0 THEN "fp_zeta_even" ELSE "fp_borwein_zeta"

NoZetaFile ==
  [exists |-> FALSE, val |-> [i \in ZetaS |-> <<>>], prec |-> [i \in ZetaS |-> -1]]

\* fp_zeta_file_cache_put: zeta - 1 goes to the file
fp_zeta_file_cache_put(file, zeta, s, prec) ==
  [exists |-> TRUE,
   val |-> [file.val EXCEPT ![s] = FormatFg(zeta - ZetaOne, prec)],
   prec |-> [file.prec EXCEPT ![s] = prec]]

\* The files earlier processes can have left behind
ZetaFiles ==
  {NoZetaFile} \cup
  {[exists |-> TRUE,
    val |-> [i \in ZetaS |-> IF i >= 2 /\ p[i] > 0
                              THEN FormatFg(ZetaValue(i) - ZetaOne, p[i]) ELSE <<>>],
    prec |-> [i \in ZetaS |-> IF i >= 2 /\ p[i] > 0 THEN p[i] ELSE -1]] :
     p \in [ZetaS -> 0..MaxZetaPrec]}

\* The value a disk hit hands back, without the offset
ZetaFromDisk_NoOffset(str) == mpf_set_str(str)

\* The value a disk hit hands back: mpf_add_ui (zeta, zeta, 1)
ZetaFromDisk(str) == mpf_set_str(str) + ZetaOne

\* fp_one_d_cache_check on the memory cache: the cache after it, and what
\* it returns
ZetaMemCheck(cc, n) ==
  IF n <= cc.nmax /\ cc.nmax # 0
  THEN [cc |-> cc, have_prec |-> CheckHit(cc, n)]
  ELSE [cc |-> GrowLinear(cc, n), have_prec |-> 0]

\* fp_one_d_cache_store
ZetaMemStore(cc, v, n, prec) == [cc EXCEPT !.mem[n + 1] = [v |-> v, m |-> prec]]

NoZetaEntry == [mem |-> 0, memval |-> 0, disk |-> 0]

IdleZd ==
  /\ zmem = [nmax |-> 0, disabled |-> FALSE, mem |-> <<>>]
  /\ zdisk = NoZetaFile
  /\ zdpc = "idle" /\ zdcall = [s |-> 0, prec |-> 0] /\ zdzeta = 0
  /\ zlog = <<>> /\ zentry = NoZetaEntry /\ zdcalls = 0

InitZd ==
  /\ zmem = [nmax |-> 0, disabled |-> FALSE, mem |-> <<>>]
  /\ zdisk \in ZetaFiles
  /\ zdpc = "idle" /\ zdcall = [s |-> 0, prec |-> 0] /\ zdzeta = 0
  /\ zlog = <<>> /\ zentry = NoZetaEntry /\ zdcalls = 0

\* Entry: the domain check
fp_zeta(s, prec) ==
  /\ zdpc \in {"idle", "done"} /\ zdcalls < MaxZetaCalls
  /\ zdcalls' = zdcalls + 1
  /\ zdcall' = [s |-> s, prec |-> prec]
  /\ zlog' = <<>>
  /\ zentry' = [mem |-> IF s <= zmem.nmax /\ zmem.nmax # 0 THEN CheckHit(zmem, s) ELSE 0,
                memval |-> IF s <= zmem.nmax /\ zmem.nmax # 0 THEN SlotAt(zmem, s).v ELSE 0,
                disk |-> CacheGet(zdisk, s, prec)]
  /\ IF 2 > s
     THEN zdpc' = "done" /\ zdzeta' = 0
     ELSE zdpc' = "mem" /\ zdzeta' = zdzeta
  /\ UNCHANGED <<zmem, zdisk>>
  /\ UNCHANGED notZd

\* First, the local cache
ZetaCheckMemory ==
  /\ zdpc = "mem"
  /\ LET chk == ZetaMemCheck(zmem, zdcall.s)
     IN /\ zmem' = chk.cc
        /\ IF chk.have_prec >= zdcall.prec
           THEN zdzeta' = SlotAt(chk.cc, zdcall.s).v /\ zdpc' = "done"
           ELSE zdzeta' = zdzeta /\ zdpc' = "disk"
  /\ zlog' = Append(zlog, "mem")
  /\ UNCHANGED <<zdisk, zdcall, zentry, zdcalls>>
  /\ UNCHANGED notZd

\* Next, the disk cache
ZetaCheckDisk ==
  /\ zdpc = "disk"
  /\ IF CacheGet(zdisk, zdcall.s, zdcall.prec) # 0
     THEN /\ zdzeta' = ZetaFromDisk(zdisk.val[zdcall.s])
          /\ zmem' = ZetaMemStore(zmem, zdzeta', zdcall.s, zdcall.prec)
          /\ zlog' = zlog \o <<"disk", "store">>
          /\ zdpc' = "done"
     ELSE /\ zlog' = Append(zlog, "disk")
          /\ zdpc' = "eval"
          /\ UNCHANGED <<zdzeta, zmem>>
  /\ UNCHANGED <<zdisk, zdcall, zentry, zdcalls>>
  /\ UNCHANGED notZd

\* Both missed: compute, then save to both caches
ZetaEvaluate ==
  /\ zdpc = "eval"
  /\ zdzeta' = ZetaValue(zdcall.s)
  /\ zmem' = ZetaMemStore(zmem, zdzeta', zdcall.s, zdcall.prec)
  /\ zdisk' = fp_zeta_file_cache_put(zdisk, zdzeta', zdcall.s, zdcall.prec)
  /\ zlog' = zlog \o <<ZetaAlgorithm(zdcall.s, zdcall.prec), "store", "put">>
  /\ zdpc' = "done"
  /\ UNCHANGED <<zdcall, zentry, zdcalls>>
  /\ UNCHANGED notZd

NextZd ==
  \/ \E s \in ZetaS, prec \in ZetaPrecs : fp_zeta(s, prec)
  \/ ZetaCheckMemory
  \/ ZetaCheckDisk
  \/ ZetaEvaluate

(***************************************************************************)
(* cpx_find_zero_quad (mp-zerofind.c): Powell's method, adapted.  Each     *)
(* pass of the loop searches along direction a from s0, then along         *)
(* direction b from where that search ended, fitting a parabola to the     *)
(* squared modulus at three colinear points.  Numbers are exact Gaussian   *)
(* rationals; a real number is one with imaginary part 0.                  *)
(***************************************************************************)
QZero == GQ(0, 0, 1)
QHalf == GQ(1, 0, 2)
QTwo == GQ(2, 0, 1)
\* 1.618 and 0.5, the factors of cpx_times_d
QGrow == GQ(809, 0, 500)
QShrink == QHalf

\* cpx_mod_sq, and mpf_cmp of two reals (over the least common denominator)
QModSq(y) == GNorm(y.r * y.r + y.i * y.i, 0, y.d * y.d)
QCross(a, b) == a.r * (b.d \div Gcd(a.d, b.d))
QCmp(a, b) ==
  IF QCross(a, b) < QCross(b, a) THEN -1 ELSE IF QCross(a, b) = QCross(b, a) THEN 0 ELSE 1

\* 0 > mpf_cmp (|n|^2, epsi) and 0 < mpf_cmp (|loc|, epsi), epsi = 1/e
QTiny(n, e) == (n.r * n.r + n.i * n.i) * e < n.d * n.d
QAbove(loc, e) == Abs(loc.r) * e > loc.d

\* quad_min at a = 0, b = 1, c = -1, so that b - a = 1 and b - c = 2: the
\* cross products, their difference the denominator, and the numerator
\* made of the cross products crossed again
QuadCrossC(fb, fc) == gq_mul(gq_sub(fb, fc), ZfOne)
QuadCrossA(fa, fb) == gq_mul(gq_sub(fb, fa), QTwo)
QuadDeno(fa, fb, fc) == gq_sub(QuadCrossC(fb, fc), QuadCrossA(fa, fb))
QuadNumer(fa, fb, fc) ==
  gq_sub(gq_mul(QuadCrossC(fb, fc), ZfOne), gq_mul(QuadCrossA(fa, fb), QTwo))

\* The bottom of the parabola through (0, fa), (1, fb), (-1, fc), or b
\* when the denominator is zero
quad_min(fa, fb, fc) ==
  IF GqIsZero(QuadDeno(fa, fb, fc)) THEN ZfOne
  ELSE gq_sub(ZfOne, gq_mul(gq_div(QuadNumer(fa, fb, fc), QuadDeno(fa, fb, fc)), QHalf))

\* One line search from `from' along n, with the best value f0 so far and
\* the end point `was' of the previous search along this direction.
\*   s: the new end point; own: the factor applied to n on the branches
\*   where the fitted point improves; miss: the factor (1.618 or 0.5) of
\*   the branch where it does not
LineSearch(fn, e, from, n, f0, was) ==
  IF QTiny(n, e)
  THEN [s |-> from, n |-> n, miss |-> ZfOne, f0 |-> f0, done |-> TRUE, how |-> "tiny"]
  ELSE LET s1 == gq_add(from, n)
           s2 == gq_sub(from, n)
           y1 == func(fn, s1)
           y2 == func(fn, s2)
           f1 == QModSq(y1)
           f2 == QModSq(y2)
           loc == quad_min(f0, f1, f2)
           nc == gq_mul(n, loc)
           s3 == gq_add(from, nc)
           y3 == func(fn, s3)
           f3 == QModSq(y3)
       IN IF QCmp(f0, f3) > 0
          THEN IF QAbove(loc, e)
               THEN [s |-> s3, n |-> gq_mul(nc, QShrink), miss |-> ZfOne,
                     f0 |-> f3, done |-> FALSE, how |-> "moved"]
               ELSE [s |-> from, n |-> n, miss |-> ZfOne,
                     f0 |-> f3, done |-> TRUE, how |-> "converged"]
          ELSE LET b1 == QCmp(f0, f1) > 0
                   g0 == IF b1 THEN f1 ELSE f0
                   b2 == QCmp(g0, f2) > 0
               IN [s |-> IF b2 THEN s2 ELSE IF b1 THEN s1 ELSE was,
                   n |-> n,
                   miss |-> IF b1 \/ b2 THEN QGrow ELSE QShrink,
                   f0 |-> IF b2 THEN f2 ELSE g0,
                   done |-> FALSE,
                   how |-> IF b1 \/ b2 THEN "grow" ELSE "shrink"]

\* The calls made: on z - 1 and z^2 - 1
QFuncs == {"lin", "sq"}
QStarts == {GQ(0, 0, 1), GQ(1, 0, 1), GQ(0, 1, 1)}
QAxes == {GQ(1, 0, 1), GQ(0, 1, 1), GQ(1, 0, 4)}

IdleQd ==
  /\ qfn = "lin" /\ qeps = 1
  /\ qs0 = QZero /\ qsa = QZero /\ qsb = QZero
  /\ qna = QZero /\ qnb = QZero /\ qf0 = QZero
  /\ qi = 0 /\ qdone1 = FALSE /\ qpc = "idle" /\ qrc = 1
  /\ qresult = ZfUnset /\ qlast = "none"

\* Up to the loop: the initial point and the initial directions
cpx_find_zero_quad(fn, initial_z, e1, e2, ndigits) ==
  /\ qpc = "idle"
  /\ qfn' = fn /\ qeps' = Epsi(ndigits)
  /\ qs0' = initial_z /\ qsa' = QZero /\ qsb' = QZero
  /\ qna' = e1 /\ qnb' = e2
  /\ LET y0 == func(fn, initial_z) IN qf0' = QModSq(y0)
  /\ qi' = 0 /\ qdone1' = FALSE /\ qpc' = "a" /\ qrc' = 1
  /\ qlast' = "none"
  /\ UNCHANGED qresult
  /\ UNCHANGED notQd

\* The first half of the loop body: the search along direction a
QuadDirectionA ==
  /\ qpc = "a" /\ qi < IterLimit /\ qi < MaxQuadIter
  /\ LET ls == LineSearch(qfn, qeps, qs0, qna, qf0, qsa)
     IN /\ qsa' = ls.s
        /\ qna' = gq_mul(ls.n, ls.miss)
        /\ qf0' = ls.f0
        /\ qdone1' = ls.done
        /\ qlast' = ls.how
  /\ qpc' = "b"
  /\ UNCHANGED <<qfn, qeps, qs0, qsb, qnb, qi, qrc, qresult>>
  /\ UNCHANGED notQd

\* The second half: "Repeat for direction b", then s0 = sb and the test
\* of done1 && done2.  Where the fitted point does not improve, the
\* factor 1.618 or 0.5 goes to na
QuadDirectionB ==
  /\ qpc = "b"
  /\ LET ls == LineSearch(qfn, qeps, qsa, qnb, qf0, qsb)
     IN /\ qsb' = ls.s
        /\ qnb' = ls.n
        /\ qna' = gq_mul(qna, ls.miss)
        /\ qf0' = ls.f0
        /\ qs0' = ls.s
        /\ qlast' = ls.how
        /\ IF qdone1 /\ ls.done
           THEN qrc' = 0 /\ qpc' = "out" /\ qi' = qi
           ELSE qrc' = qrc /\ qpc' = "a" /\ qi' = qi + 1
  /\ UNCHANGED <<qfn, qeps, qsa, qdone1, qresult>>
  /\ UNCHANGED notQd

\* After the loop: the returned value
QuadReturn ==
  /\ \/ qpc = "out"
     \/ qpc = "a" /\ qi >= IterLimit
  /\ qresult' = qs0
  /\ qpc' = "done"
  /\ UNCHANGED <<qfn, qeps, qs0, qsa, qsb, qna, qnb, qf0, qi, qdone1, qrc, qlast>>
  /\ UNCHANGED notQd

NextQd ==
  \/ \E fn \in QFuncs, z \in QStarts, e1 \in QAxes, e2 \in QAxes, nd \in ZfDigits :
        cpx_find_zero_quad(fn, z, e1, e2, nd)
  \/ QuadDirectionA
  \/ QuadDirectionB
  \/ QuadReturn

IdleCache ==
  /\ kind = "fp1d"
  /\ c = [nmax |-> 0, disabled |-> FALSE, mem |-> <<>>]
  /\ lastChk = NoChk /\ out = 0 /\ acc = "none" /\ op = "none"
  /\ crashed = FALSE /\ shadow = <<>> /\ grown = 0 /\ nops = 0

vars == <<cacheVars, concVars, binVars, isoVars, dbVars, plVars, rcVars, muVars, zfVars, mpVars, prVars, kcVars, mgVars, zbVars, zdVars, qdVars>>

(***************************************************************************)
(* C1: for any sequence of check/store calls on a linear or a triangular   *)
(* cache that triggers a growth, every entry stored before the growth is   *)
(* still reported valid by check and fetch returns its original value.     *)
(***************************************************************************)
C1_GrowthPreservesEntries ==
  (op = "check" /\ grown >= 1) =>
     \A i \in DOMAIN shadow :
        /\ InRange(c, i)
        /\ CheckHit(c, i) = shadow[i].m
        /\ SlotAt(c, i).v = shadow[i].v

(***************************************************************************)
(* C3: after a clear on a linear cache, check reports a miss for every     *)
(* index from 0 to nmax inclusive.                                         *)
(***************************************************************************)
C3_ClearInvalidatesAll ==
  (op = "clear" /\ c.nmax > 0) => \A n \in 0..c.nmax : CheckHit(c, n) = 0

(***************************************************************************)
(* C4: every operation on a cache whose disabled flag is set is a no-op:   *)
(* check reports a miss, and no operation reads or writes the backing      *)
(* storage.                                                                *)
(***************************************************************************)
C4_DisabledIsNoOp ==
  c.disabled => (acc = "none" /\ lastChk.hit = 0 /\ ~crashed)


Init == InitCache /\ IdleConc /\ IdleBin /\ IdleIso /\ IdleDb /\ IdlePl /\ IdleRc /\ IdleMu /\ IdleZf /\ IdleMp /\ IdlePr /\ IdleKc /\ IdleMg /\ IdleZb /\ IdleZd /\ IdleQd
Next == NextCache
Spec == Init /\ [][Next]_vars

InitConc == IdleCache /\ IdleConc /\ IdleBin /\ IdleIso /\ IdleDb /\ IdlePl /\ IdleRc /\ IdleMu /\ IdleZf /\ IdleMp /\ IdlePr /\ IdleKc /\ IdleMg /\ IdleZb /\ IdleZd /\ IdleQd
SpecConc == InitConc /\ [][NextConc]_vars

(***************************************************************************)
(* C2: when several threads call check, fetch and store on the same        *)
(* spinlock-protected cache, no fetch or store accesses a backing array    *)
(* that another thread's growth has freed, and no completed store is lost  *)
(* to a concurrent growth.                                                 *)
(***************************************************************************)
C2_NoFreedAccessNoLostStore ==
  /\ ~uaf
  /\ \A n \in done :
        /\ n <= cnmax
        /\ heap[cptr].mem[n + 1] = [v |-> CachedValue(n), m |-> ThePrec]

InitBin == IdleCache /\ IdleConc /\ IdleBin /\ IdleIso /\ IdleDb /\ IdlePl /\ IdleRc /\ IdleMu /\ IdleZf /\ IdleMp /\ IdlePr /\ IdleKc /\ IdleMg /\ IdleZb /\ IdleZd /\ IdleQd
SpecBinom == InitBin /\ [][NextBin]_vars
SpecBinSeq == InitBin /\ [][CallNext]_vars

(***************************************************************************)
(* C5: a call i_binomial_sequence(n,k), 0<=k<=n, that lies ahead of the    *)
(* last sequentially served position is answered by re-deriving the        *)
(* intervening pairs: it returns C(n,k) and does not fall back to the      *)
(* general binomial coefficient.                                           *)
(***************************************************************************)
C5_AheadIsFilled ==
  (bops > 0 /\ bahead) => (bin = Binomial(bcall[1], bcall[2]) /\ ~bslow)

(***************************************************************************)
(* C6: requested in sequential order from (0,0), the sequential binomial   *)
(* coefficient equals the general binomial coefficient C(n,k).             *)
(***************************************************************************)
C6_SequentialIsBinomial ==
  bops > 0 => (bin = Binomial(bcall[1], bcall[2]) /\ ~bslow /\ ~bst.oob)

C6_Witness == bcall = <<30, 15>> /\ bin = 155117520 /\ ~bslow

InitIsoAll == IdleCache /\ IdleConc /\ IdleBin /\ InitIso /\ IdleDb /\ IdlePl /\ IdleRc /\ IdleMu /\ IdleZf /\ IdleMp /\ IdlePr /\ IdleKc /\ IdleMg /\ IdleZb /\ IdleZd /\ IdleQd
SpecIso == InitIsoAll /\ [][NextIso]_vars
\* The thread that is inside the loop keeps running.
LoopStep == ipc = "loop" /\ isteps' = isteps + 1
SpecIsoFair == InitIsoAll /\ [][NextIso]_vars /\ WF_isteps(LoopStep)

(***************************************************************************)
(* C7: every slot cpx_isolate_roots writes has an index below degree, and  *)
(* the count it returns equals the number of disks it recorded in the      *)
(* caller's arrays.                                                        *)
(***************************************************************************)
C7_WritesBelowDegreeCountIsRecorded ==
  /\ \A n \in written : n < degree
  /\ ipc = "returned" => ret = Cardinality(written)

(***************************************************************************)
(* C8: for a square-free polynomial the isolation loop terminates: a call  *)
(* that has entered the loop eventually empties the work-list and returns. *)
(***************************************************************************)
C8_IsolationTerminates ==
  (ipc = "loop" /\ poly = Poly2) ~> (ipc = "returned")

(***************************************************************************)
(* C9: for the degree-n polynomial with roots 1, 1/2, ..., 1/n and the     *)
(* search box from -2-2i to 2+2i, cpx_isolate_roots returns exactly n      *)
(* disks, for n from 2 to 14, and no two returned disks overlap.           *)
(***************************************************************************)
C9_HarmonicRootsAllFound ==
  (/\ ipc = "returned"
   /\ poly.name = "polyn" /\ degree \in 2..14
   /\ boxll = TestBox.boxll /\ boxur = TestBox.boxur)
  => /\ ret = degree
     /\ \A i, j \in 0..(ret - 1) :
           i # j => ~disk_intersect(centers[i], radii[i], centers[j], radii[j])

InitDb == IdleCache /\ IdleConc /\ IdleBin /\ IdleIso /\ IdleDb /\ IdlePl /\ IdleRc /\ IdleMu /\ IdleZf /\ IdleMp /\ IdlePr /\ IdleKc /\ IdleMg /\ IdleZb /\ IdleZd /\ IdleQd
SpecDb == InitDb /\ [][NextDb]_vars

(***************************************************************************)
(* C10: after a put at precision P that reached the database, a get on the *)
(* same database and index asking for more than P digits (P+1) returns 0,  *)
(* and a get asking for P digits or fewer returns P, which is not zero,    *)
(* and yields the value of the stored string.                              *)
(***************************************************************************)
C10_PrecisionGate ==
  (dcall.op = "get" /\ dlast[dcall.dbname][dcall.idx] # NoRec) =>
     LET stored == dlast[dcall.dbname][dcall.idx]
     IN IF dcall.nprec > stored.nprec
        THEN dret = 0
        ELSE /\ dret = stored.nprec
             /\ dret # 0
             /\ dval = mpf_set_str(stored.str)

C10_Witness ==
  /\ dcall = [op |-> "get", dbname |-> "zeta.db", idx |-> 0, nprec |-> 1, val |-> 0]
  /\ dret = 2 /\ dval = 130

(***************************************************************************)
(* C11: when opening the database fails for a reason other than the file   *)
(* not existing yet, put and get both report the failure on standard error *)
(* and treat it as a miss: get returns 0 and put writes nothing.           *)
(***************************************************************************)
C11_OpenFailureReported ==
  (dcall.op # "none" /\ dfail \notin {"ok", "ENOENT"}) =>
     /\ derr # ""
     /\ dcall.op = "get" => dret = 0
     /\ dbfile[dcall.dbname] = EmptyFile /\ dlast[dcall.dbname][dcall.idx] = NoRec


InitPlAll == IdleCache /\ IdleConc /\ IdleBin /\ IdleIso /\ IdleDb /\ InitPl /\ IdleRc /\ IdleMu /\ IdleZf /\ IdleMp /\ IdlePr /\ IdleKc /\ IdleMg /\ IdleZb /\ IdleZd /\ IdleQd
SpecPolylog == InitPlAll /\ [][NextPl]_vars

(***************************************************************************)
(* C12: whenever the domain navigation of the polylogarithm fails to       *)
(* converge (a nested evaluation hands back a non-zero status), cpx_polylog*)
(* and cpx_polylog_away return a non-zero status and the result they leave *)
(* in the caller's variable is exactly zero.                               *)
(***************************************************************************)
C12_FailedNavigationReturnsZero ==
  pfail.failed => (prc # 0 /\ pval = Zero)

\* cpx_polylog fails two or more levels down, in a variable that held the
\* non-zero result of an earlier call.
C12_Witness ==
  /\ pcall.fn = "cpx_polylog" /\ pfail.failed /\ pfail.at > 1
  /\ pfail.stale # Zero /\ prc # 0 /\ pval = Zero

(***************************************************************************)
(* C13: two immediately successive calls of cpx_polylog with s = 2, the    *)
(* same z and the same precision return the same status and bit-identical  *)
(* results, whatever the static caches hold.                               *)
(***************************************************************************)
C13_RepeatedCallIsIdentical ==
  (pcalls >= 2 /\ ~pfpe /\ pcall.fn = "cpx_polylog" /\ pprev.call = pcall) =>
     (prc = pprev.rc /\ pval = pprev.val)

InitRc == IdleCache /\ IdleConc /\ IdleBin /\ IdleIso /\ IdleDb /\ IdlePl /\ IdleRc /\ IdleMu /\ IdleZf /\ IdleMp /\ IdlePr /\ IdleKc /\ IdleMg /\ IdleZb /\ IdleZd /\ IdleQd
SpecPowRc == InitRc /\ [][NextRc]_vars

(***************************************************************************)
(* C14: when calls of a two-context power wrapper alternate between two    *)
(* fixed (q, s) contexts, both are retained, one per slot: once each       *)
(* context has been seen, no call for one of them clears the cache that    *)
(* holds the other, and a repeated (context, k) request at the same        *)
(* precision is served from the cache.                                     *)
(***************************************************************************)
C14_BothContextsRetained ==
  (rclog.fn # "none" /\ rclog.bothSeen) =>
     /\ rclog.cleared \notin (Contexts \ {rclog.ctx})
     /\ rclog.repeated => rclog.hit

InitMu == IdleCache /\ IdleConc /\ IdleBin /\ IdleIso /\ IdleDb /\ IdlePl /\ IdleRc /\ IdleMu /\ IdleZf /\ IdleMp /\ IdlePr /\ IdleKc /\ IdleMg /\ IdleZb /\ IdleZd /\ IdleQd
SpecMul == InitMu /\ [][NextMu]_vars

(***************************************************************************)
(* C15: over any sequence of cpx_multiplicative_cached calls with varying  *)
(* n and no cache clear in between, the function supplied by the caller is *)
(* invoked at most once for each prime p.                                  *)
(***************************************************************************)
C15_OncePerPrime ==
  \A p \in MulArgs : IsPrime(p) => fcount[p] <= 1

\* A prime asked for three times or more, over two or more calls, one of
\* them for its square, and evaluated once.
C15_Witness ==
  /\ mcalls >= 2 /\ mcall.n = 9 /\ mres = 9
  /\ fasked[3] >= 3 /\ fcount[3] = 1

InitZf == IdleCache /\ IdleConc /\ IdleBin /\ IdleIso /\ IdleDb /\ IdlePl /\ IdleRc /\ IdleMu /\ IdleZf /\ IdleMp /\ IdlePr /\ IdleKc /\ IdleMg /\ IdleZb /\ IdleZd /\ IdleQd
SpecZeroFind == InitZf /\ [][NextZf]_vars

(***************************************************************************)
(* C16: the conic-section zero finder accepts a proposed point, in place   *)
(* of the worst of the three it retains, only if its modulus is strictly   *)
(* smaller than that of the worst; the first proposed point that does not  *)
(* strictly improve makes the function return 1 with the result set to the *)
(* best point found.                                                       *)
(***************************************************************************)
C16_AcceptOnlyStrictImprovement ==
  zprop.made =>
     /\ zprop.accepted => zprop.cmp < 0
     /\ zprop.cmp >= 0 => (zpc = "done" /\ zrc = 1 /\ zresult = zpts[1].s)

InitMp == IdleCache /\ IdleConc /\ IdleBin /\ IdleIso /\ IdleDb /\ IdlePl /\ IdleRc /\ IdleMu /\ IdleZf /\ IdleMp /\ IdlePr /\ IdleKc /\ IdleMg /\ IdleZb /\ IdleZd /\ IdleQd
SpecMpfPow == InitMp /\ [][NextMp]_vars

(***************************************************************************)
(* C17: called with a real base that is not positive, zero as well as      *)
(* negative, cpx_mpf_pow prints a domain error to standard error and       *)
(* returns without writing the result: past its domain check, such a call  *)
(* has printed the diagnostic, is over, and has left powc alone.           *)
(***************************************************************************)
C17_NonPositiveBaseIsDomainError ==
  (wcalls >= 1 /\ wpc # "idle" /\ mpf_cmp_ui(wkq, 0) <= 0) =>
     (wpc = "done" /\ werr = DomainError /\ ~wwritten)

InitPrAll == IdleCache /\ IdleConc /\ IdleBin /\ IdleIso /\ IdleDb /\ IdlePl /\ IdleRc /\ IdleMu /\ IdleZf /\ IdleMp /\ InitPr /\ IdleKc /\ IdleMg /\ IdleZb /\ IdleZd /\ IdleQd
SpecDbPrt == InitPrAll /\ [][NextPr]_vars

(***************************************************************************)
(* C18: the coverage report splits the index range from..to into the       *)
(* maximal contiguous sub-ranges of equal cached precision and prints each *)
(* exactly once, as missing exactly when its indices are uncached          *)
(* (precision 0) and with its precision otherwise.                         *)
(***************************************************************************)
C18_ReportIsThePartition ==
  (prcall.made /\ prcall.from <= prcall.to) =>
     /\ {prout[i] : i \in 1..Len(prout)} = ExpectedReport(prfile, prcall.from, prcall.to)
     /\ Len(prout) = Cardinality(ExpectedReport(prfile, prcall.from, prcall.to))

(***************************************************************************)
(* C19: in the thread-safe cache a growth allocates the replacement array  *)
(* and copies the prior contents into it while the cache's spinlock is not *)
(* held; the lock is held only for the swap of the live pointer and nmax,  *)
(* and the old array is freed after the lock has been released.            *)
(***************************************************************************)
C19_GrowthAllocatesOutsideLock ==
  [][/\ Len(heap') > Len(heap) => lock = 0
     /\ \A t \in Threads : (pc[t] = "free" /\ pc'[t] # "free") => lock # t]_vars

InitKc == IdleCache /\ IdleConc /\ IdleBin /\ IdleIso /\ IdleDb /\ IdlePl /\ IdleRc /\ IdleMu /\ IdleZf /\ IdleMp /\ IdlePr /\ IdleKc /\ IdleMg /\ IdleZb /\ IdleZd /\ IdleQd
SpecConsts == InitKc /\ [][NextKc]_vars

\* Thread t is between the lock and the unlock of constant function cf: the
\* part of the function that reads and writes its cached value and its
\* cached precision.
InCheckThenAct(t, cf) ==
  \E i \in 1..Len(kstack[t]) : kstack[t][i].fn = cf

\* The four families as the claim lists them.
FamilyAsListed(cf) ==
  CASE cf = "fp_euler_mascheroni" -> "Euler-Mascheroni"
    [] cf \in {"fp_pi", "fp_two_pi", "fp_two_over_pi", "fp_pi_half",
              "fp_sqrt_two_pi", "fp_log_two_pi"} -> "pi and derived"
    [] cf = "fp_zeta_half" -> "zeta(1/2)"
    [] OTHER -> "everything else"

ConstWants(t) ==
  IF /\ kstack[t] # <<>>
     /\ cprec[ConstTop(t).fn] < ConstTop(t).prec
     /\ ConstTop(t).next <= Len(ConstCallees(ConstTop(t).fn))
  THEN ConstLock(ConstCallees(ConstTop(t).fn)[ConstTop(t).next])
  ELSE "none"

(***************************************************************************)
(* C26: no constants function ever tries to acquire a spinlock that its    *)
(* own thread already holds, directly or through a nested call into        *)
(* another constant, exp or log (so that every call, the first call for    *)
(* sqrt(2 pi), log(2 pi) or e^pi included, releases its locks and          *)
(* returns).                                                               *)
(***************************************************************************)
C26_NeverTakesALockItHolds ==
  \A t \in ConstThreads :
    ConstWants(t) # "none" => mp_lock[ConstWants(t)] # t

(***************************************************************************)
(* C28: on every return path of the conic-section zero finder, the path    *)
(* where all 100 iterations are used up included, the result has been      *)
(* assigned the best point found before the status is returned.            *)
(***************************************************************************)
C28_ResultAssignedOnEveryReturn ==
  zpc = "done" => (zresult # ZfUnset /\ zresult = zpts[1].s)

Quadrants(box) ==
  LET mid == Pt((box.boxll.re + box.boxur.re) \div 2,
                (box.boxll.im + box.boxur.im) \div 2)
  IN {[boxll |-> box.boxll, boxur |-> mid],
      [boxll |-> mid, boxur |-> box.boxur],
      [boxll |-> Pt(box.boxll.re, mid.im), boxur |-> Pt(mid.re, box.boxur.im)],
      [boxll |-> Pt(mid.re, box.boxll.im), boxur |-> Pt(box.boxur.re, mid.im)]}

\* The disks recorded so far, as a step leaves them alone.
DisksUnchanged == centers' = centers /\ radii' = radii /\ nfound' = nfound

ResolveStep == Looping /\ ~Fpe0 /\ ~Test0 /\ ~Fpe1 /\ Test1 /\ ipc' = "loop"
ResolvedRadius == Radius * 2 * degree
RecordedHits ==
  {n \in 0..(nfound - 1) :
      disk_intersect(centers[n], radii[n], Midpoint, ResolvedRadius)}

(***************************************************************************)
(* C24: a resolved box's disk is compared with every disk recorded so far: *)
(* when it overlaps one, no new slot is used and that slot ends up holding *)
(* the smaller-radius disk of the two; when it overlaps none, the disk is  *)
(* appended as a new one.                                                  *)
(***************************************************************************)
C24_MergedOrAppended ==
  [][ResolveStep =>
       IF RecordedHits # {}
       THEN /\ nfound' = nfound
            /\ \E n \in RecordedHits :
                 /\ radii'[n] = IF radii[n] > ResolvedRadius
                                THEN ResolvedRadius ELSE radii[n]
                 /\ centers'[n] = IF radii[n] > ResolvedRadius
                                  THEN Midpoint ELSE centers[n]
                 /\ \A m \in Slots \ {n} :
                      centers'[m] = centers[m] /\ radii'[m] = radii[m]
       ELSE /\ nfound' = nfound + 1
            /\ centers'[nfound] = Midpoint
            /\ radii'[nfound] = ResolvedRadius]_vars

(***************************************************************************)
(* C27: the overlap scan of a resolved box reads only the slots recorded   *)
(* so far, 0..count-1: whether the disk is appended or dropped is decided  *)
(* by those slots alone, the unrecorded slot count is left as the caller   *)
(* set it unless the disk is appended there, and slot degree is not read.  *)
(***************************************************************************)
C27_ScanReadsRecordedSlotsOnly ==
  [][ResolveStep =>
       /\ (nfound' = nfound + 1) <=> (RecordedHits = {})
       /\ nfound' = nfound =>
            (centers'[nfound] = centers[nfound] /\ radii'[nfound] = radii[nfound])
       /\ nfound < degree]_vars

InitMerge == IdleCache /\ IdleConc /\ IdleBin /\ IdleIso /\ IdleDb /\ IdlePl /\ IdleRc /\ IdleMu /\ IdleZf /\ IdleMp /\ IdlePr /\ IdleKc /\ InitMg /\ IdleZb /\ IdleZd /\ IdleQd
SpecMerge == InitMerge /\ [][NextMg]_vars

(***************************************************************************)
(* C29: past its usage check the merge program reads only arguments that   *)
(* were supplied, argv indices below argc, and any invocation that lacks   *)
(* one of the five positional arguments prints the usage message and       *)
(* exits with status 1.                                                    *)
(***************************************************************************)
C29_MissingArgumentIsUsage ==
  gpc # "shell" =>
    /\ \A i \in gread : i < argc
    /\ Len(gargv) < 5 => (gpc = "exit" /\ gexit = 1 /\ gusage)

InitZb == IdleCache /\ IdleConc /\ IdleBin /\ IdleIso /\ IdleDb /\ IdlePl /\ IdleRc /\ IdleMu /\ IdleZf /\ IdleMp /\ IdlePr /\ IdleKc /\ IdleMg /\ IdleZb /\ IdleZd /\ IdleQd
SpecZetaBrute == InitZb /\ [][NextZb]_vars

\* The index up to which the terms of a sum are all present: the runs
\* reaching on from term 2 without a gap
RECURSIVE SummedTo(_, _)
SummedTo(v, r) ==
  LET ext == {v.ivs[i].hi : i \in {j \in 1..Len(v.ivs) :
                                      v.ivs[j].lo <= r /\ v.ivs[j].hi > r}}
  IN IF ext = {} THEN r
     ELSE SummedTo(v, CHOOSE h \in ext : \A g \in ext : g <= h)

(***************************************************************************)
(* C30: fp_zeta_brute answers from its cache line only a sum that was      *)
(* accumulated for at least the requested precision: the value of a hit    *)
(* holds every term up to the bound of the requested precision, and a      *)
(* cache line carries a precision marker only of a call that proceeded,    *)
(* never of one that was refused for a term bound above 1e9.               *)
(***************************************************************************)
C30_HitOnlyOfAccumulatedSum ==
  /\ zbhow = "hit" =>
       SummedTo(zbzeta, 2) >= BruteNmax(zbcall.s, zbcall.prec)
  /\ \A s \in 2..MaxBruteS :
       zprec[s] # 0 => ~TooManyTerms(s, zprec[s])

InitZeta == IdleCache /\ IdleConc /\ IdleBin /\ IdleIso /\ IdleDb /\ IdlePl /\ IdleRc /\ IdleMu /\ IdleZf /\ IdleMp /\ IdlePr /\ IdleKc /\ IdleMg /\ IdleZb /\ InitZd /\ IdleQd
SpecZeta == InitZeta /\ [][NextZd]_vars

ZetaEvaluations == {"fp_zeta_brute", "fp_zeta_even", "fp_borwein_zeta"}

(***************************************************************************)
(* C21: for s >= 2 fp_zeta consults the memory cache first; a memory hit   *)
(* of sufficient precision returns the cached value and the disk cache is  *)
(* not touched; the disk cache is consulted only after a memory miss; and  *)
(* a disk hit returns the stored value plus 1, stores it in the memory     *)
(* cache at the requested precision, and runs no evaluation and writes     *)
(* nothing to disk.                                                        *)
(***************************************************************************)
C21_MemoryThenDiskThenEvaluate ==
  LET s == zdcall.s
      prec == zdcall.prec
  IN /\ zlog # <<>> => zlog[1] = "mem"
     /\ \A i \in 1..Len(zlog) :
          /\ zlog[i] = "disk" => (i = 2 /\ zentry.mem < prec)
          /\ zlog[i] \in ZetaEvaluations =>
               (i = 3 /\ zentry.mem < prec /\ zentry.disk = 0)
          /\ zlog[i] = "put" => \E j \in 1..(i - 1) : zlog[j] \in ZetaEvaluations
     /\ (zdpc = "done" /\ s >= 2 /\ zentry.mem >= prec) =>
          (zlog = <<"mem">> /\ zdzeta = zentry.memval)
     /\ (zdpc = "done" /\ s >= 2 /\ zentry.mem < prec /\ zentry.disk # 0) =>
          /\ zlog = <<"mem", "disk", "store">>
          /\ zdzeta = mpf_set_str(zdisk.val[s]) + ZetaOne
          /\ SlotAt(zmem, s) = [v |-> zdzeta, m |-> prec]

\* A second call answered from memory with the value the first call took
\* from the disk: the stored string plus 1, not the evaluated value
C21_Witness ==
  /\ zdpc = "done" /\ zdcalls = 2 /\ zdcall.s >= 2
  /\ zlog = <<"mem">> /\ zentry.mem >= zdcall.prec
  /\ zdzeta = mpf_set_str(zdisk.val[zdcall.s]) + ZetaOne
  /\ zdzeta # ZetaValue(zdcall.s)

InitQd == IdleCache /\ IdleConc /\ IdleBin /\ IdleIso /\ IdleDb /\ IdlePl /\ IdleRc /\ IdleMu /\ IdleZf /\ IdleMp /\ IdlePr /\ IdleKc /\ IdleMg /\ IdleZb /\ IdleZd /\ IdleQd
SpecPowell == InitQd /\ [][NextQd]_vars

(***************************************************************************)
(* C25: a line search rescales only the vector of its own direction: when  *)
(* the point fitted along the second direction does not improve on the     *)
(* centre, the second direction nb is multiplied by 1.618 if an off-centre *)
(* point improved and by 0.5 otherwise, and the first direction na is left *)
(* as it was.                                                              *)
(***************************************************************************)
C25_SecondSearchRescalesSecondDirection ==
  [][(qpc = "b" /\ qlast' \in {"grow", "shrink"}) =>
       /\ qna' = qna
       /\ qnb' = gq_mul(qnb, IF qlast' = "grow" THEN QGrow ELSE QShrink)]_vars

====
